---- MODULE Spec2Model ----
(***************************************************************************)
(* Model of the StatFin ingestion pipeline of jnkp/geoinfo:                *)
(*   - StatFinClient._request   (backend/services/statfin.py): one         *)
(*     transport operation with retry, backoff and rate-limit handling;    *)
(*   - DataFetcher.fetch_dataset / _do_fetch / _store_records /            *)
(*     _update_fetch_status (backend/services/fetcher.py): the fetch       *)
(*     orchestrator, its semaphore, its database session and the           *)
(*     persisted fetch status.                                             *)
(* SpecRequest runs one _request call; Spec runs concurrent fetch_dataset  *)
(* calls on one DataFetcher.                                               *)
(***************************************************************************)
EXTENDS Integers, Sequences, FiniteSets, TLC

\* An optional value (Optional[...] of the source, a header that may be
\* absent) is a sequence of at most one element: None, or Some(x).
None == <<>>
Some(x) == <<x>>

(***************************************************************************)
(* Bounds of the model                                                     *)
(***************************************************************************)
\* max_retries is drawn from 0..MaxRetriesBound (the default MAX_RETRIES = 3 is covered)
BackoffRetries == 6
MaxRetriesBound == 3
\* fetch_dataset calls launched on one DataFetcher
NumCalls == 3
\* max_concurrent is drawn from 1..MaxConcurrentBound
MaxConcurrentBound == 2
\* the clock (datetime.utcnow(), in hours) runs over 0..MaxClock
MaxClock == 1
\* a decoded cube has 0..MaxCells cells
MaxCells == 1
\* a document declares 0..MaxDims dimensions
MaxDims == 2
\* a dimension has 1..MaxSize categories
MaxSize == 2
\* a dataset given to the normalizer has 0..MaxPoints data points
MaxPoints == 2
\* identify_dimensions is given 0..MaxRoleDims dimensions
MaxRoleDims == 2

(***************************************************************************)
(* StatFinClient: retry configuration (class attributes)                   *)
(***************************************************************************)
MAX_RETRIES == 3
INITIAL_RETRY_DELAY == 1
MAX_RETRY_DELAY == 30
RETRY_BACKOFF_FACTOR == 2

\* min() of Python
Min(a, b) == IF a <= b THEN a ELSE b

\* int(s) of a string of decimal digits, given as the sequence of its digits
RECURSIVE ParseInt(_)
ParseInt(digits) ==
    IF digits = <<>> THEN 0
    ELSE 10 * ParseInt(SubSeq(digits, 1, Len(digits) - 1)) + digits[Len(digits)]

\* The Retry-After header of a response: absent, or a number of seconds in
\* decimal ("30", "5").
NoHeader == None
RetryAfterHeaders == {NoHeader} \cup {Some(d) : d \in {<<3, 0>>, <<5>>}}

\* What one client.get / client.post can produce: a response with a status
\* code (and, for 429, a Retry-After header), httpx.TimeoutException, or
\* another httpx.RequestError (connection error).
HttpResponses ==
    {[kind |-> "http", status |-> s, header |-> NoHeader] : s \in {200, 404, 500, 503}}
    \cup {[kind |-> "http", status |-> 429, header |-> h] : h \in RetryAfterHeaders}
TransportFailures ==
    {[kind |-> k, status |-> None, header |-> NoHeader] : k \in {"timeout", "request_error"}}
Responses == HttpResponses \cup TransportFailures

\* response.headers.get("Retry-After", retry_delay), then int(...)
RetryAfterIgnoringHeader(resp, delay) == delay
RetryAfterOf(resp, delay) ==
    IF resp.header # NoHeader THEN ParseInt(resp.header[1]) ELSE delay

\* retry_delay = min(retry_delay * RETRY_BACKOFF_FACTOR, MAX_RETRY_DELAY)
NextRetryDelayConstant(delay) == delay
NextRetryDelayUncapped(delay) == delay * RETRY_BACKOFF_FACTOR
NextRetryDelay(delay) == Min(delay * RETRY_BACKOFF_FACTOR, MAX_RETRY_DELAY)

\* "if response.status_code == 429", "if response.status_code >= 500" and
\* "if response.status_code >= 400", tested in this order
IsRateLimited(status) == status = 429
IsServerErrorFrom400(status) == status >= 400
IsServerError(status) == status >= 500
IsClientError(status) == status >= 400

\* "if attempt < self.max_retries": another attempt remains
MayRetryOneMore(att, maxr) == att <= maxr
MayRetry(att, maxr) == att < maxr

\* The exceptions _request raises, and its normal return
NoOutcome == [kind |-> "none", message |-> "", status_code |-> None,
              retry_after |-> None, attempts_in_message |-> None]
Returned == [kind |-> "ok", message |-> "", status_code |-> None,
             retry_after |-> None, attempts_in_message |-> None]
StatFinRateLimitError(ra) ==
    [kind |-> "StatFinRateLimitError", message |-> "Rate limited by StatFin API",
     status_code |-> Some(429), retry_after |-> Some(ra), attempts_in_message |-> None]
ServerError(status) ==
    [kind |-> "StatFinError", message |-> "Server error", status_code |-> Some(status),
     retry_after |-> None, attempts_in_message |-> None]
ClientError(status) ==
    [kind |-> "StatFinError", message |-> "Client error", status_code |-> Some(status),
     retry_after |-> None, attempts_in_message |-> None]
ExhaustedError(maxr) ==
    [kind |-> "StatFinError", message |-> "Request failed after N attempts",
     status_code |-> None, retry_after |-> None, attempts_in_message |-> Some(maxr + 1)]

(***************************************************************************)
(* DataFetcher: configuration, persistence and results                     *)
(***************************************************************************)
MIN_FETCH_DELAY == 1
MAX_CONCURRENT_FETCHES == 3

Calls == 1..NumCalls

\* Dataset rows of the database; "d1" and "d2" have a FetchConfig row, "d3"
\* has none, and "missing" is an id without a Dataset row.
Datasets == {"d1", "d2", "d3"}
Configured == {"d1", "d2"}
DatasetIds == Datasets \cup {"missing"}

\* FetchResult.error_message / FetchConfig.last_error_message: None, or a
\* text made of a prefix and of str(e)
NullMessage == None
\* StatFinError.__str__ ("StatFin API error (<status_code>): <message>"), and
\* str(e) of any other exception: retry_after is not part of the text
Str(e) == Some([prefix |-> "", text |-> e.message,
                status_code |-> e.status_code, attempts |-> e.attempts_in_message])
Prefixed(p, m) == Some([m[1] EXCEPT !.prefix = p])

\* Exceptions other than those of _request
MalformedCube ==
    [kind |-> "StatFinError",
     message |-> "Invalid JSON-stat response: missing required fields",
     status_code |-> None, retry_after |-> None, attempts_in_message |-> None]
OtherError ==
    [kind |-> "Exception", message |-> "unexpected error", status_code |-> None,
     retry_after |-> None, attempts_in_message |-> None]
DbError ==
    [kind |-> "Exception", message |-> "database error", status_code |-> None,
     retry_after |-> None, attempts_in_message |-> None]
NoException == None

\* What client.fetch_and_parse can raise: the errors of _request, the decode
\* error of parse_jsonstat, or any other exception
FetchErrors ==
    {StatFinRateLimitError(30), ServerError(503), ClientError(404),
     ExhaustedError(MAX_RETRIES), MalformedCube, OtherError}

\* "except StatFinRateLimitError" / "except StatFinError" / "except Exception"
\* of _do_fetch: the prefix of result.error_message
ErrorPrefix(e) ==
    IF e.kind = "StatFinRateLimitError" THEN "Rate limited: "
    ELSE IF e.kind = "StatFinError" THEN "API error: "
    ELSE ""

\* FetchResult(success=False, dataset_id=dataset_id)
InitialResult ==
    [success |-> FALSE, records_fetched |-> 0, records_inserted |-> 0,
     error_message |-> NullMessage]

\* The status columns of a FetchConfig row
FetchConfigRow(interval, status, last_at, msg, next_at, count) ==
    [fetch_interval_hours |-> interval, last_fetch_status |-> status,
     last_fetch_at |-> last_at, last_error_message |-> msg,
     next_fetch_at |-> next_at, fetch_count |-> count]
StatusColumns ==
    {"fetch_interval_hours", "last_fetch_status", "last_fetch_at",
     "last_error_message", "next_fetch_at", "fetch_count"}
NoConfig == None

\* The rows the database holds before the calls: a configuration never
\* fetched (defaults of the model), and one whose last fetch failed
InitialConfigs ==
    [d \in Configured |->
        IF d = "d1"
        THEN FetchConfigRow(24, "pending", None, NullMessage, None, 0)
        ELSE FetchConfigRow(1, "failed", Some(0), Str(ServerError(500)), Some(0), 2)]

\* _update_fetch_status(session, fetch_config, success, error_message) at time t
UpdateFetchStatus(cfg, success, msg, t) ==
    IF success
    THEN [cfg EXCEPT !.last_fetch_status = "success", !.last_fetch_at = Some(t),
                     !.fetch_count = @ + 1, !.last_error_message = NullMessage,
                     !.next_fetch_at = Some(t + cfg.fetch_interval_hours)]
    ELSE [cfg EXCEPT !.last_fetch_status = "failed", !.last_error_message = msg,
                     !.next_fetch_at = Some(t + cfg.fetch_interval_hours)]

\* session.commit() for a loaded row: the UPDATE sets the columns whose
\* value the session changed, the others keep what the database holds
CommitRow(stored, loaded, changed) ==
    [col \in StatusColumns |->
        IF changed[col] # loaded[col] THEN changed[col] ELSE stored[col]]

\* _do_fetch: "dataset = await session.get(Dataset, dataset_id)" finds a row
DatasetFoundAlways(d) == TRUE
DatasetFound(d) == d \in Datasets

\* f"Dataset not found: {dataset_id}"
NotFoundMessage(d) ==
    Some([prefix |-> "Dataset not found: ", text |-> d,
          status_code |-> None, attempts |-> None])

\* asyncio.Semaphore: a slot is free
CanAcquireAlways(value) == TRUE
CanAcquire(value) == value > 0
\* the end of "async with self._semaphore": the slot is given back
ReleaseNever(value) == value
Release(value) == value + 1

\* "if result.success: await session.commit() else: await session.rollback()"
CommitsWhen(result) == result.success

(***************************************************************************)
(* JSON-stat documents, StatFinClient.parse_jsonstat and StatFinDataset    *)
(***************************************************************************)
\* The vectors of up to MaxDims dimension sizes, each in 1..MaxSize
SizeVectors == UNION {[1..n -> 1..MaxSize] : n \in 0..MaxDims}

\* The product of seq[k..Len(seq)]
RECURSIVE ProductFrom(_, _)
ProductFrom(seq, k) ==
    IF k > Len(seq) THEN 1 ELSE seq[k] * ProductFrom(seq, k + 1)
Product(seq) == ProductFrom(seq, 1)

\* The i-th entry of a "value" array: the entries are in turn a number, a
\* null, a number written as a string and a text that is not a number
RawValue(i) ==
    [kind |-> <<"number", "null", "numeric_text", "text">>[(i % 4) + 1], v |-> i]

\* A response document. "fields" are the top-level keys it has; the
\* dimension ids are 1..n; "dimension" maps the ids it describes to their
\* number of categories (the codes of a category map are 0..n-1, which are
\* also their indexes)
RequiredFields == {"id", "dimension", "value"}
AllFields == RequiredFields \cup {"size"}
Document(counts, size, skipped, nvalues) ==
    [fields |-> AllFields,
     id |-> [k \in 1..Len(counts) |-> k],
     size |-> size,
     dimension |-> [k \in (1..Len(counts)) \ skipped |-> counts[k]],
     value |-> [i \in 1..nvalues |-> RawValue(i)]]
Without(doc, missing) ==
    [fields |-> doc.fields \ missing,
     id |-> IF "id" \in missing THEN <<>> ELSE doc.id,
     size |-> IF "size" \in missing THEN <<>> ELSE doc.size,
     dimension |-> IF "dimension" \in missing THEN <<>> ELSE doc.dimension,
     value |-> IF "value" \in missing THEN <<>> ELSE doc.value]

\* Documents with every required field: the size list is any vector (or is
\* missing), independent of the category counts; one declared dimension may
\* be missing from the dimension map; the value array has as many entries
\* as the category counts or the size list ask for
CompleteDocuments ==
    UNION {UNION {
        {Document(counts, size, skipped, nvalues) :
            skipped \in {{}} \cup {{k} : k \in 1..Len(counts)},
            nvalues \in {Product(counts), Product(size)}}
        \cup {Without(Document(counts, size, {}, Product(counts)), {"size"})}
        : size \in SizeVectors} : counts \in SizeVectors}
\* Documents that lack required fields
MalformedDocuments ==
    {Without(Document(counts, counts, {}, Product(counts)), missing) :
        counts \in SizeVectors, missing \in (SUBSET RequiredFields) \ {{}}}
Documents == CompleteDocuments \cup MalformedDocuments

\* "float(v)" of an entry that is not None, with "except (TypeError,
\* ValueError): values.append(None)"
Float(raw) ==
    IF raw.kind \in {"number", "numeric_text"} THEN Some(raw.v) ELSE None
\* The loop "for v in raw_values" of parse_jsonstat
ParsedValuesWithoutNulls(raw_values) ==
    [i \in 1..Len(SelectSeq(raw_values, LAMBDA r : r.kind # "null")) |->
        Float(SelectSeq(raw_values, LAMBDA r : r.kind # "null")[i])]
ParsedValues(raw_values) ==
    [i \in 1..Len(raw_values) |->
        IF raw_values[i].kind = "null" THEN None ELSE Float(raw_values[i])]

\* The loop "for dim_id in dimension_ids" of parse_jsonstat: a declared id
\* that the dimension map lacks is skipped; the categories of the others,
\* sorted by index
ParsedDimensions(doc) ==
    LET found == SelectSeq(doc.id, LAMBDA d : d \in DOMAIN doc.dimension)
    IN  [k \in 1..Len(found) |->
            [id |-> found[k],
             categories |-> [i \in 1..doc.dimension[found[k]] |-> i - 1]]]

\* "sizes: list[int] = response.get("size", [])"
SizesOf(doc) == IF "size" \in doc.fields THEN doc.size ELSE <<>>

\* parse_jsonstat(response): the error it raises, or the StatFinDataset
HasRequiredFieldsIfAny(doc) == doc.fields \cap RequiredFields # {}
HasRequiredFields(doc) == RequiredFields \subseteq doc.fields
ParseJsonstat(doc) ==
    IF ~HasRequiredFields(doc)
    THEN [error |-> Some(MalformedCube), dimensions |-> <<>>, values |-> <<>>,
          sizes |-> <<>>]
    ELSE [error |-> None, dimensions |-> ParsedDimensions(doc),
          values |-> ParsedValues(doc.value), sizes |-> SizesOf(doc)]

\* "self._sizes.index(size)": the first position that holds the value
FirstIndex(seq, x) ==
    CHOOSE i \in 1..Len(seq) : seq[i] = x /\ \A j \in 1..(i - 1) : seq[j] # x

\* _index_to_coordinates: the divisor of the k-th iteration, the product of
\* "self._sizes[self._sizes.index(size) + 1:]"
Divisor(sizes, k) == ProductFrom(sizes, FirstIndex(sizes, sizes[k]) + 1)

\* _index_to_coordinates(flat_index): the iterations k..Len(sizes) of its
\* loop, begun with the given remaining
RECURSIVE Coordinates(_, _, _)
Coordinates(sizes, k, remaining) ==
    IF k > Len(sizes) THEN <<>>
    ELSE <<remaining \div Divisor(sizes, k)>>
         \o Coordinates(sizes, k + 1, remaining % Divisor(sizes, k))
IndexToCoordinates(sizes, flat_index) == Coordinates(sizes, 1, flat_index)

\* "list index out of range", raised by "coords[dim_idx]"
IndexError ==
    [kind |-> "Exception", message |-> "list index out of range",
     status_code |-> None, retry_after |-> None, attempts_in_message |-> None]

\* get_data_points: the data point of flat index i (from 0): the value and
\* the code of each dimension whose category index is in range
\* (get_category_by_index returns None otherwise)
DataPoint(ds, i) ==
    LET coords == IndexToCoordinates(ds.sizes, i)
        known == {k \in 1..Len(ds.dimensions) :
                    coords[k] < Len(ds.dimensions[k].categories)}
    IN  [value |-> ds.values[i + 1],
         coordinates |-> [d \in {ds.dimensions[k].id : k \in known} |->
            LET k == CHOOSE k \in known : ds.dimensions[k].id = d
            IN  ds.dimensions[k].categories[coords[k] + 1]]]

\* get_data_points(): the IndexError of "coords[dim_idx]" when there are
\* values and fewer sizes than dimensions, or one data point per value
GetDataPoints(ds) ==
    IF Len(ds.values) > 0 /\ Len(ds.sizes) < Len(ds.dimensions)
    THEN [error |-> Some(IndexError), points |-> <<>>]
    ELSE [error |-> None,
          points |-> [i \in 1..Len(ds.values) |-> DataPoint(ds, i - 1)]]

\* StatFinDataset.total_cells
TotalCellsBySize(ds) == Product(ds.sizes)
TotalCells(ds) == Len(ds.values)

\* Nothing was received yet
IdleCube == [pc |-> "idle"]

(***************************************************************************)
(* DataNormalizer: time codes and records. A time code is the sequence of  *)
(* its characters.                                                         *)
(***************************************************************************)
Digit == <<"0", "1", "2", "3", "4", "5", "6", "7", "8", "9">>
IsDigit(ch) == \E n \in 1..10 : Digit[n] = ch
DigitValue(ch) == CHOOSE n \in 0..9 : Digit[n + 1] = ch
AllDigits(code, from, to) == \A i \in from..to : IsDigit(code[i])

\* int(match.group(n)) of a run of digits
RECURSIVE IntOf(_)
IntOf(digits) ==
    IF digits = <<>> THEN 0
    ELSE 10 * IntOf(SubSeq(digits, 1, Len(digits) - 1)) + DigitValue(digits[Len(digits)])

\* "$" after n characters: the end of the string, or a newline that ends it
AtEnd(code, n) == Len(code) = n \/ (Len(code) = n + 1 /\ code[n + 1] = "\n")

\* r"^(\d{4})"
StartsWithYear(code) == Len(code) >= 4 /\ AllDigits(code, 1, 4)
\* YEAR_PATTERN = r"^(\d{4})$"
YEAR_PATTERN(code) == StartsWithYear(code) /\ AtEnd(code, 4)
\* YEAR_QUARTER_PATTERN = r"^(\d{4})Q([1-4])$"
YEAR_QUARTER_PATTERN(code) ==
    /\ StartsWithYear(code)
    /\ Len(code) >= 6
    /\ code[5] = "Q"
    /\ code[6] \in {"1", "2", "3", "4"}
    /\ AtEnd(code, 6)
\* YEAR_MONTH_PATTERN = r"^(\d{4})M(\d{1,2})$": the length of group 2 in
\* the match, 0 when the code does not match
MonthDigits(code) ==
    IF StartsWithYear(code) /\ Len(code) >= 7 /\ code[5] = "M"
       /\ AllDigits(code, 6, 7) /\ AtEnd(code, 7) THEN 2
    ELSE IF StartsWithYear(code) /\ Len(code) >= 6 /\ code[5] = "M"
       /\ AllDigits(code, 6, 6) /\ AtEnd(code, 6) THEN 1
    ELSE 0
YEAR_MONTH_PATTERN(code) == MonthDigits(code) > 0
\* MONTH_YEAR_PATTERN = r"^(\d{4})-(\d{2})$"
MONTH_YEAR_PATTERN(code) ==
    /\ StartsWithYear(code)
    /\ Len(code) >= 7
    /\ code[5] = "-"
    /\ AllDigits(code, 6, 7)
    /\ AtEnd(code, 7)
\* re.search(r"(\d{4})", time_code): the start of the first run of four
\* digits, 0 when there is none
SearchYearNever(code) == 0
SearchYear(code) ==
    LET starts == {p \in 1..(Len(code) - 3) : AllDigits(code, p, p + 3)}
    IN  IF starts = {} THEN 0 ELSE CHOOSE p \in starts : \A q \in starts : p <= q

\* What parse_time_value returns, and its ValueError
TimeValue(year, quarter, month) ==
    [error |-> FALSE, year |-> Some(year), quarter |-> quarter, month |-> month]
UnrecognizedTimeCode ==
    [error |-> TRUE, year |-> None, quarter |-> None, month |-> None]

\* parse_time_value(time_code)
ParseTimeValue(code) ==
    IF YEAR_PATTERN(code)
    THEN TimeValue(IntOf(SubSeq(code, 1, 4)), None, None)
    ELSE IF YEAR_QUARTER_PATTERN(code)
    THEN TimeValue(IntOf(SubSeq(code, 1, 4)), Some(IntOf(SubSeq(code, 6, 6))), None)
    ELSE IF YEAR_MONTH_PATTERN(code)
    THEN TimeValue(IntOf(SubSeq(code, 1, 4)), None,
                   Some(IntOf(SubSeq(code, 6, 5 + MonthDigits(code)))))
    ELSE IF MONTH_YEAR_PATTERN(code)
    THEN TimeValue(IntOf(SubSeq(code, 1, 4)), None, Some(IntOf(SubSeq(code, 6, 7))))
    ELSE IF SearchYear(code) > 0
    THEN TimeValue(IntOf(SubSeq(code, SearchYear(code), SearchYear(code) + 3)),
                   None, None)
    ELSE UnrecognizedTimeCode

\* The time codes given to parse_time_value: a year, alone or after a text,
\* followed by a quarter, a month, a text, a digit or a newline; and codes
\* without a run of four digits
Prefixes == {<<>>, <<"a", "b", "c">>}
Years == {<<"2", "0", "2", "3">>, <<"2", "0", "2", "1">>}
Suffixes ==
    {<<>>, <<"Q", "2">>, <<"Q", "4">>, <<"Q", "5">>, <<"Q", "0">>, <<"Q", "2", "1">>,
     <<"M", "0", "6">>, <<"M", "6">>, <<"M", "1", "2">>, <<"M", "0", "0">>,
     <<"M", "1", "3">>, <<"M", "1", "2", "3">>, <<"M">>,
     <<"-", "0", "6">>, <<"-", "1", "3">>, <<"-", "0", "0">>, <<"-", "6">>,
     <<"x", "y", "z">>, <<"7">>, <<"\n">>, <<"M", "6", "\n">>}
CodesWithoutYear ==
    {<<>>, <<"a", "b", "c">>, <<"2", "0", "2">>, <<"M", "0", "6">>,
     <<"2", "0", "-", "2", "3">>, <<"Q", "2">>}
TimeCodes ==
    {p \o y \o x : p \in Prefixes, y \in Years, x \in Suffixes} \cup CodesWithoutYear

(***************************************************************************)
(* DataNormalizer: the roles of the dimensions. A name is the sequence of  *)
(* its characters ("a_uml" is the letter a with diaeresis).                *)
(***************************************************************************)
LowerCase ==
    <<"a", "b", "c", "d", "e", "f", "g", "h", "i", "j", "k", "l", "m",
      "n", "o", "p", "q", "r", "s", "t", "u", "v", "w", "x", "y", "z", "a_uml">>
UpperCase ==
    <<"A", "B", "C", "D", "E", "F", "G", "H", "I", "J", "K", "L", "M",
      "N", "O", "P", "Q", "R", "S", "T", "U", "V", "W", "X", "Y", "Z", "A_UML">>
\* str.upper()
UpperOf(ch) ==
    IF \E n \in 1..Len(LowerCase) : LowerCase[n] = ch
    THEN UpperCase[CHOOSE n \in 1..Len(LowerCase) : LowerCase[n] = ch]
    ELSE ch
Upper(text) == [i \in 1..Len(text) |-> UpperOf(text[i])]
\* "part in text"
Contains(text, part) ==
    \E p \in 0..(Len(text) - Len(part)) : SubSeq(text, p + 1, p + Len(part)) = part

TIME_DIMENSION_NAMES ==
    {<<"V", "u", "o", "s", "i">>, <<"Y", "e", "a", "r">>,
     <<"K", "u", "u", "k", "a", "u", "s", "i">>, <<"M", "o", "n", "t", "h">>,
     <<"V", "u", "o", "s", "i", "n", "e", "l", "j", "a_uml", "n", "n", "e", "s">>,
     <<"Q", "u", "a", "r", "t", "e", "r">>}
REGION_DIMENSION_NAMES ==
    {<<"A", "l", "u", "e">>, <<"R", "e", "g", "i", "o", "n">>,
     <<"M", "a", "a", "k", "u", "n", "t", "a">>, <<"K", "u", "n", "t", "a">>,
     <<"S", "e", "u", "t", "u", "k", "u", "n", "t", "a">>}
INDUSTRY_DIMENSION_NAMES ==
    {<<"T", "o", "i", "m", "i", "a", "l", "a">>,
     <<"I", "n", "d", "u", "s", "t", "r", "y">>, <<"T", "O", "L">>}
VALUE_DIMENSION_NAMES ==
    {<<"T", "i", "e", "d", "o", "t">>, <<"T", "i", "e", "t", "o">>,
     <<"I", "n", "f", "o", "r", "m", "a", "t", "i", "o", "n">>,
     <<"D", "a", "t", "a">>}

\* "any(name.upper() in dim_id_upper or name.upper() in dim_label_upper
\* for name in names)"; the label of a dimension without label is ""
DimensionMatches(names, dim) ==
    \E name \in names :
        \/ Contains(Upper(dim.id), Upper(name))
        \/ Contains(Upper(dim.label), Upper(name))

\* The branch of the if/elif chain of identify_dimensions that a dimension
\* takes
BranchOfRegionFirst(dim) ==
    IF DimensionMatches(REGION_DIMENSION_NAMES, dim) THEN "region"
    ELSE IF DimensionMatches(TIME_DIMENSION_NAMES, dim) THEN "time"
    ELSE IF DimensionMatches(INDUSTRY_DIMENSION_NAMES, dim) THEN "industry"
    ELSE IF DimensionMatches(VALUE_DIMENSION_NAMES, dim) THEN "value"
    ELSE "none"
BranchOf(dim) ==
    IF DimensionMatches(TIME_DIMENSION_NAMES, dim) THEN "time"
    ELSE IF DimensionMatches(REGION_DIMENSION_NAMES, dim) THEN "region"
    ELSE IF DimensionMatches(INDUSTRY_DIMENSION_NAMES, dim) THEN "industry"
    ELSE IF DimensionMatches(VALUE_DIMENSION_NAMES, dim) THEN "value"
    ELSE "none"

\* self._time_dimension, self._region_dimension, self._industry_dimension
\* and self._value_dimension after __init__
NoRoles == [time |-> None, region |-> None, industry |-> None, value |-> None]

\* identify_dimensions: the loop "for dim in statfin_data.dimensions" from
\* the k-th dimension on
RECURSIVE IdentifyFrom(_, _, _)
IdentifyFrom(dims, k, roles) ==
    IF k > Len(dims) THEN roles
    ELSE IdentifyFrom(dims, k + 1,
            IF BranchOf(dims[k]) = "none" THEN roles
            ELSE [roles EXCEPT ![BranchOf(dims[k])] = Some(dims[k].id)])
IdentifyDimensions(dims) == IdentifyFrom(dims, 1, NoRoles)

\* The ids and labels of the dimensions given to identify_dimensions: names
\* of one vocabulary, of two, of none, in either case
DimensionIds ==
    {<<"v", "u", "o", "s", "i">>, <<"A", "l", "u", "e">>,
     <<"a", "l", "u", "e", "v", "u", "o", "s", "i">>,
     <<"T", "O", "L", "_", "d", "a", "t", "a">>,
     <<"T", "i", "e", "d", "o", "t">>,
     <<"S", "u", "k", "u", "p", "u", "o", "l", "i">>}
DimensionLabels ==
    {<<>>, <<"Y", "e", "a", "r">>,
     <<"R", "e", "g", "i", "o", "n", " ", "d", "a", "t", "a">>}
RoleDimensions == [id : DimensionIds, label : DimensionLabels]
\* The dimensions of a dataset have different ids
HasDifferentIds(dims) ==
    \A j, k \in 1..Len(dims) : j # k => dims[j].id # dims[k].id

\* str.strip(): without the white space at its ends
IsSpace(ch) == ch \in {" ", "\t", "\n"}
Strip(text) ==
    LET inked == {i \in 1..Len(text) : ~IsSpace(text[i])}
    IN  IF inked = {} THEN <<>>
        ELSE SubSeq(text, CHOOSE i \in inked : \A j \in inked : i <= j,
                          CHOOSE i \in inked : \A j \in inked : j <= i)
\* str.startswith(prefix)
StartsWith(text, prefix) ==
    Len(text) >= Len(prefix) /\ SubSeq(text, 1, Len(prefix)) = prefix

\* The codes that normalize_region_code takes for the whole country
WholeCountryCodes ==
    {<<"S", "S", "S">>, <<"K", "O", "K", "O", " ", "M", "A", "A">>,
     <<"W", "H", "O", "L", "E", " ", "C", "O", "U", "N", "T", "R", "Y">>}
\* normalize_region_code(code)
NormalizeRegionCode(code) ==
    IF Upper(code) \in WholeCountryCodes THEN <<"S", "S", "S">>
    ELSE IF StartsWith(Upper(Strip(code)), <<"M", "K">>) /\ Len(Strip(code)) > 2
    THEN SubSeq(Strip(code), 3, Len(Strip(code)))
    ELSE Strip(code)

\* The region codes given to normalize_region_code: the whole-country
\* codes in several cases, codes with and without the prefix "MK", followed
\* by digits, by letters or by nothing, and codes with white space
RegionCodes ==
    {<<"S", "S", "S">>, <<"s", "s", "s">>, <<"S", "s", "s">>,
     <<"K", "O", "K", "O", " ", "M", "A", "A">>,
     <<"K", "o", "k", "o", " ", "m", "a", "a">>,
     <<"W", "H", "O", "L", "E", " ", "C", "O", "U", "N", "T", "R", "Y">>,
     <<"w", "h", "o", "l", "e", " ", "c", "o", "u", "n", "t", "r", "y">>,
     <<"M", "K", "0", "1">>, <<"M", "K", "1">>, <<"M", "K">>,
     <<"M", "K", "T">>, <<"M", "K", "a", "b", "c">>, <<"m", "k", "0", "1">>,
     <<"M", "K", "0", "a">>, <<"0", "1">>, <<"0", "9", "1">>,
     <<"K", "U", "0", "9", "1">>, <<"M">>, <<>>, <<" ", "0", "1">>,
     <<"0", "1", " ">>, <<" ", "M", "K", "0", "1">>, <<"S", "S", "S", " ">>,
     <<" ", "s", "s", "s">>, <<"K", "O", "K", "O", " ", " ", "M", "A", "A">>,
     <<"X", "M", "K", "0", "1">>}

\* The dimension lists of the datasets given to the normalizer, by id, and
\* the characters of each id; the label of a dimension is its id
\* ("dim_data.get("label", dim_id)")
Layouts ==
    {<<"Alue">>, <<"Vuosi">>, <<"Vuosi", "Alue">>, <<"Vuosi", "Kuukausi">>,
     <<"Aika", "Alue">>}
\* The dimensions of the population table "Alue, Vuosi ja Tiedot"
SampleLayout == <<"Alue", "Vuosi", "Tiedot">>
Spelling ==
    [Alue |-> <<"A", "l", "u", "e">>,
     Vuosi |-> <<"V", "u", "o", "s", "i">>,
     Kuukausi |-> <<"K", "u", "u", "k", "a", "u", "s", "i">>,
     Aika |-> <<"A", "i", "k", "a">>,
     Tiedot |-> <<"T", "i", "e", "d", "o", "t">>]

\* identify_dimensions on the dimensions of each layout: the id that each
\* of self._time_dimension, self._region_dimension,
\* self._industry_dimension and self._value_dimension holds, or None
LayoutRoles ==
    [dims \in Layouts \cup {SampleLayout} |->
        LET roles == IdentifyDimensions(
                        [k \in 1..Len(dims) |->
                            [id |-> Spelling[dims[k]], label |-> Spelling[dims[k]]]])
        IN  [r \in DOMAIN roles |->
                IF roles[r] = None THEN None
                ELSE Some(CHOOSE id \in DOMAIN Spelling : Spelling[id] = roles[r][1])]]
RolesOf(dims) == LayoutRoles[dims]
\* self._time_dimension
TimeDimensionOf(dims) == RolesOf(dims).time

\* The codes of the coordinates of the data points
CellCodes ==
    {<<"2", "0", "2", "3">>, <<"2", "0", "2", "1", "Q", "2">>,
     <<"2", "0", "2", "3", "M", "1", "3">>, <<"M", "0", "6">>}
\* The coordinates a data point of the given dimensions can have: a code
\* for each dimension or for some of them (get_data_points leaves out a
\* dimension whose category index is out of range)
CoordinatesOf(dims) ==
    LET ids == {dims[k] : k \in 1..Len(dims)}
    IN  UNION {[D -> CellCodes] : D \in SUBSET ids}
\* The data points of the given coordinates; the value of a cell is its
\* position
DataPointsAt(coordinates) ==
    [k \in 1..Len(coordinates) |-> [coordinates |-> coordinates[k], value |-> Some(k)]]

\* _normalize_data_point, "If no time dimension identified, try common
\* dimension names": the first of "Vuosi", "Year" that is a coordinate and
\* whose code parse_time_value accepts
FallbackTime(coordinates) ==
    LET names == <<"Vuosi", "Year">>
        good == {k \in 1..2 : /\ names[k] \in DOMAIN coordinates
                              /\ ~ParseTimeValue(coordinates[names[k]]).error}
    IN  IF good = {} THEN UnrecognizedTimeCode
        ELSE ParseTimeValue(coordinates[names[CHOOSE k \in good : \A j \in good : k <= j]])

\* _normalize_data_point, "Extract region code": the normalized coordinate
\* of the region dimension, or of the first of "Alue", "Region", "Maakunta",
\* "Kunta" that is a coordinate, or None
RegionCodeOf(region_dimension, coordinates) ==
    LET names == <<"Alue", "Region", "Maakunta", "Kunta">>
        found == {k \in 1..4 : names[k] \in DOMAIN coordinates}
    IN  IF region_dimension # None /\ region_dimension[1] \in DOMAIN coordinates
        THEN Some(NormalizeRegionCode(coordinates[region_dimension[1]]))
        ELSE IF found = {} THEN None
        ELSE Some(NormalizeRegionCode(
                coordinates[names[CHOOSE k \in found : \A j \in found : k <= j]]))

\* _normalize_data_point(coordinates, labels, value): None, or the record
\* (its time fields, its region code and its value; the industry and label
\* fields are copies of other coordinates and are left out)
NormalizeDataPoint(roles, coordinates, value) ==
    LET direct == roles.time # None /\ roles.time[1] \in DOMAIN coordinates
        t == IF direct THEN ParseTimeValue(coordinates[roles.time[1]])
             ELSE FallbackTime(coordinates)
    IN  IF t.error THEN None
        ELSE Some([year |-> t.year, quarter |-> t.quarter, month |-> t.month,
                   region_code |-> RegionCodeOf(roles.region, coordinates),
                   value |-> value])

\* normalize_records: the loop "for dp in data_points" from the k-th data
\* point on; a data point without record is skipped
RECURSIVE NormalizeFrom(_, _, _)
NormalizeFrom(roles, points, k) ==
    IF k > Len(points) THEN <<>>
    ELSE NormalizeDataPoint(roles, points[k].coordinates, points[k].value)
         \o NormalizeFrom(roles, points, k + 1)
\* the same loop, ended at the first data point without record
RECURSIVE NormalizeUntilDropped(_, _, _)
NormalizeUntilDropped(roles, points, k) ==
    IF k > Len(points) THEN <<>>
    ELSE IF NormalizeDataPoint(roles, points[k].coordinates, points[k].value) = None
    THEN <<>>
    ELSE NormalizeDataPoint(roles, points[k].coordinates, points[k].value)
         \o NormalizeUntilDropped(roles, points, k + 1)

\* normalize_records(statfin_data), given the dimensions and the data points
NormalizeRecordsAborting(dims, points) ==
    NormalizeUntilDropped(RolesOf(dims), points, 1)
NormalizeRecords(dims, points) == NormalizeFrom(RolesOf(dims), points, 1)

(***************************************************************************)
(* DataFetcher._store_records: the rows of a batch                         *)
(***************************************************************************)
\* The region and industry codes of the records of a batch (no code, the
\* empty code, a code of the reference table, a code that is not) and the
\* contents of the reference tables
RecordRegionCodes == {None, Some(""), Some("01"), Some("99")}
RecordIndustryCodes == {None, Some("A"), Some("Z")}
RegionTables == {{}, {"01"}}
IndustryTables == {{}, {"A"}}
\* The records with the given pairs of codes; the value of a record is its
\* position
RecordsOf(codes) ==
    [k \in 1..Len(codes) |->
        [year |-> Some(2023), quarter |-> None, month |-> None,
         region_code |-> codes[k][1], industry_code |-> codes[k][2],
         value |-> Some(k)]]

\* "if region_code and region_code not in valid_regions": the code is not
\* None, not empty and not in the set
IsUnknownCode(code, valid) == code # None /\ code[1] # "" /\ code[1] \notin valid
\* the code written to the row
CheckedCode(code, valid) == IF IsUnknownCode(code, valid) THEN None ELSE code
\* the warnings that one record appends
WarningsOf(record, valid_regions, valid_industries) ==
    (IF IsUnknownCode(record.region_code, valid_regions)
     THEN <<[text |-> "Unknown region code", code |-> record.region_code[1]]>>
     ELSE <<>>)
    \o (IF IsUnknownCode(record.industry_code, valid_industries)
        THEN <<[text |-> "Unknown industry code", code |-> record.industry_code[1]]>>
        ELSE <<>>)
\* the loop "for record in records" from the k-th record on: its warnings
RECURSIVE WarningsFrom(_, _, _, _)
WarningsFrom(records, k, valid_regions, valid_industries) ==
    IF k > Len(records) THEN <<>>
    ELSE WarningsOf(records[k], valid_regions, valid_industries)
         \o WarningsFrom(records, k + 1, valid_regions, valid_industries)
\* _store_records(session, dataset, records), given what the two calls of
\* _get_valid_codes returned: the rows added to the session and the result
StoreResult(records, valid_regions, valid_industries) ==
    [rows |-> [k \in 1..Len(records) |->
                [year |-> records[k].year,
                 quarter |-> records[k].quarter,
                 month |-> records[k].month,
                 region_code |-> CheckedCode(records[k].region_code, valid_regions),
                 industry_code |-> CheckedCode(records[k].industry_code,
                                               valid_industries),
                 value |-> records[k].value]],
     inserted |-> Len(records),
     warnings |-> WarningsFrom(records, 1, valid_regions, valid_industries)]

\* Nothing was normalized yet
IdleNorm == [pc |-> "idle"]

\* The columns of a FetchConfig row that fetch_all_active reads and no
\* fetch writes
ScheduleRow(active, prio) == [is_active |-> active, priority |-> prio]
\* "default=True" of is_active and "default=0" of priority
DefaultSchedule == [d \in Configured |-> ScheduleRow(TRUE, 0)]

\* "(FetchConfig.next_fetch_at <= now) | (FetchConfig.next_fetch_at == None)"
IsDueAlways(next_at, t) == TRUE
IsDue(next_at, t) == next_at = None \/ next_at[1] <= t

\* "FetchConfig.priority.desc()": priority p sorts before priority q
PriorityFirstAscending(p, q) == p < q
PriorityFirst(p, q) == p > q

\* "FetchConfig.next_fetch_at.asc()": a sorts before b; where NULL sorts
\* depends on the database (last in PostgreSQL, first in SQLite)
NextFetchFirst(a, b, nullsFirst) ==
    IF a = None \/ b = None
    THEN IF nullsFirst THEN a = None /\ b # None ELSE a # None /\ b = None
    ELSE a[1] < b[1]

\* The sequences that hold every element of S once
Orderings(S) ==
    {seq \in [1..Cardinality(S) -> S] :
        \A i, j \in 1..Cardinality(S) : i # j => seq[i] # seq[j]}

\* The locals of fetch_all_active before the call; "at" and "seen" keep the
\* time of the query and the next_fetch_at column it read, "waited" the
\* seconds slept since the last fetch_dataset call returned
IdleRun ==
    [pc |-> "idle", force |-> FALSE, at |-> None, seen |-> <<>>,
     configs |-> <<>>, results |-> <<>>, waited |-> 0]

\* The local state of a fetch_dataset call before it starts
IdleCall ==
    [dataset_id |-> "", result |-> InitialResult,
     loaded_config |-> NoConfig, fetch_config |-> NoConfig,
     batch |-> 0, pending_rows |-> 0, exc |-> NoException,
     status_update |-> None, status_message |-> NullMessage,
     committed |-> FALSE, rolled_back |-> FALSE]

VARIABLES
    max_retries,   \* self.max_retries
    req_pc,        \* position in _request: "request" | "sleep" | "done"
    attempt,       \* the loop variable of "for attempt in range(max_retries + 1)"
    retry_delay,   \* the local retry_delay
    responses,     \* what each client.get / client.post so far produced
    sleeps,        \* the argument of each asyncio.sleep so far
    outcome,       \* the exception raised by _request, or its return
    max_concurrent,\* DataFetcher.max_concurrent
    sem,           \* the value of DataFetcher._semaphore
    now,           \* datetime.utcnow(), in hours
    pc,            \* position of each fetch_dataset call
    call,          \* locals, session and result of each fetch_dataset call
    db_config,     \* committed FetchConfig rows, by dataset id
    db_rows,       \* committed Statistic rows, counted by the call that built them
    sched,         \* the is_active and priority columns of the FetchConfig rows
    run,           \* locals and position of one fetch_all_active call
    cube,          \* a JSON-stat document and what parse_jsonstat made of it
    norm           \* a decoded dataset and what DataNormalizer made of it

reqvars == <<max_retries, req_pc, attempt, retry_delay, responses, sleeps, outcome>>
fetchvars == <<max_concurrent, sem, now, pc, call, db_config, db_rows>>
allvars == <<sched, run>>
purevars == <<cube, norm>>
vars == <<reqvars, fetchvars, allvars, purevars>>

\* A StatFinClient(max_retries=r) before a _request
RequestState(r) ==
    /\ max_retries = r
    /\ req_pc = "request"
    /\ attempt = 0
    /\ retry_delay = INITIAL_RETRY_DELAY
    /\ responses = <<>>
    /\ sleeps = <<>>
    /\ outcome = NoOutcome

\* A DataFetcher(max_concurrent=n) on which no call was launched yet
FetcherStateWith(n, rows) ==
    /\ max_concurrent = n
    /\ sem = n
    /\ now = 0
    /\ pc = [c \in Calls |-> "idle"]
    /\ call = [c \in Calls |-> IdleCall]
    /\ db_config = rows
    /\ db_rows = [c \in Calls |-> 0]
FetcherState(n) == FetcherStateWith(n, InitialConfigs)

\* No fetch_all_active call was made
SchedulerState(s) ==
    /\ sched = s
    /\ run = IdleRun

\* Nothing was decoded or normalized
PureState ==
    /\ cube = IdleCube
    /\ norm = IdleNorm

\* _do_fetch / _update_fetch_status: "if fetch_config:" for the row the
\* session of call c loaded
HasConfig(c) == call[c].fetch_config # NoConfig

\* _request up to the loop: retry_delay = INITIAL_RETRY_DELAY, attempt = 0
InitRequest ==
    /\ \E r \in 0..MaxRetriesBound : RequestState(r)
    /\ FetcherState(MAX_CONCURRENT_FETCHES)
    /\ SchedulerState(DefaultSchedule)
    /\ PureState

\* "await asyncio.sleep(d)" then "continue": the await point of a retry
SleepThenRetry(d) ==
    /\ req_pc' = "sleep"
    /\ sleeps' = Append(sleeps, d)
    /\ UNCHANGED <<attempt, retry_delay, outcome>>

Raise(e) ==
    /\ req_pc' = "done"
    /\ outcome' = e
    /\ UNCHANGED <<attempt, retry_delay, sleeps>>

\* One iteration of the loop whose response has status 429
OnRateLimited ==
    /\ req_pc = "request"
    /\ \E resp \in HttpResponses :
        /\ IsRateLimited(resp.status)
        /\ responses' = Append(responses, resp)
        /\ LET retry_after == RetryAfterOf(resp, retry_delay) IN
           IF MayRetry(attempt, max_retries)
           THEN SleepThenRetry(retry_after)
           ELSE Raise(StatFinRateLimitError(retry_after))
    /\ UNCHANGED <<max_retries, fetchvars, allvars, purevars>>

\* One iteration whose response has a status >= 500
OnServerError ==
    /\ req_pc = "request"
    /\ \E resp \in HttpResponses :
        /\ ~IsRateLimited(resp.status)
        /\ IsServerError(resp.status)
        /\ responses' = Append(responses, resp)
        /\ IF MayRetry(attempt, max_retries)
           THEN SleepThenRetry(retry_delay)
           ELSE Raise(ServerError(resp.status))
    /\ UNCHANGED <<max_retries, fetchvars, allvars, purevars>>

\* One iteration whose response has a status >= 400 (not 429, not >= 500)
OnClientError ==
    /\ req_pc = "request"
    /\ \E resp \in HttpResponses :
        /\ ~IsRateLimited(resp.status)
        /\ ~IsServerError(resp.status)
        /\ IsClientError(resp.status)
        /\ responses' = Append(responses, resp)
        /\ Raise(ClientError(resp.status))
    /\ UNCHANGED <<max_retries, fetchvars, allvars, purevars>>

\* One iteration whose response is a success: return response.json()
OnSuccess ==
    /\ req_pc = "request"
    /\ \E resp \in HttpResponses :
        /\ ~IsRateLimited(resp.status)
        /\ ~IsServerError(resp.status)
        /\ ~IsClientError(resp.status)
        /\ responses' = Append(responses, resp)
        /\ Raise(Returned)
    /\ UNCHANGED <<max_retries, fetchvars, allvars, purevars>>

\* One iteration in which the call raises httpx.TimeoutException or another
\* httpx.RequestError: sleep and continue, or fall out of the loop to the
\* final raise
OnTransportFailure ==
    /\ req_pc = "request"
    /\ \E resp \in TransportFailures :
        /\ responses' = Append(responses, resp)
        /\ IF MayRetry(attempt, max_retries)
           THEN SleepThenRetry(retry_delay)
           ELSE Raise(ExhaustedError(max_retries))
    /\ UNCHANGED <<max_retries, fetchvars, allvars, purevars>>

\* The sleep of a retry ends: the backoff advances and the loop continues
\* with the next attempt
WakeUp ==
    /\ req_pc = "sleep"
    /\ retry_delay' = NextRetryDelay(retry_delay)
    /\ attempt' = attempt + 1
    /\ req_pc' = "request"
    /\ UNCHANGED <<max_retries, responses, sleeps, outcome, fetchvars, allvars, purevars>>

NextRequest ==
    \/ OnRateLimited
    \/ OnServerError
    \/ OnClientError
    \/ OnSuccess
    \/ OnTransportFailure
    \/ WakeUp

SpecRequest == InitRequest /\ [][NextRequest]_vars

\* A client constructed with max_retries = BackoffRetries: enough attempts
\* for the backoff 1, 2, 4, 8, 16 to reach MAX_RETRY_DELAY
InitBackoff ==
    /\ RequestState(BackoffRetries)
    /\ FetcherState(MAX_CONCURRENT_FETCHES)
    /\ SchedulerState(DefaultSchedule)
    /\ PureState

\* The answers drawn for the attempts of that client: one of each kind that
\* is retried (5xx, 429 with and without Retry-After, timeout, connection
\* error) and the success
BackoffResponses ==
    {r \in Responses :
        \/ r.kind # "http"
        \/ r.status \in {200, 503}
        \/ r.status = 429 /\ r.header \in {NoHeader, Some(<<5>>)}}
Answered == responses[Len(responses)] \in BackoffResponses

NextBackoff ==
    \/ OnRateLimited /\ Answered'
    \/ OnServerError /\ Answered'
    \/ OnSuccess /\ Answered'
    \/ OnTransportFailure /\ Answered'
    \/ WakeUp

SpecBackoff == InitBackoff /\ [][NextBackoff]_vars

(***************************************************************************)
(* DataFetcher.fetch_dataset: concurrent calls on one DataFetcher, each    *)
(* with its own database session (session=None)                            *)
(***************************************************************************)
Init ==
    /\ RequestState(MAX_RETRIES)
    /\ \E n \in 1..MaxConcurrentBound : FetcherState(n)
    /\ SchedulerState(DefaultSchedule)
    /\ PureState

\* fetch_dataset(dataset_id) is called: the initial result, and
\* "async with self._semaphore", which takes a free slot at once or waits
LaunchFetch(c, d) ==
    /\ pc[c] = "idle"
    /\ call' = [call EXCEPT ![c] = [IdleCall EXCEPT !.dataset_id = d]]
    /\ IF CanAcquire(sem)
       THEN sem' = sem - 1 /\ pc' = [pc EXCEPT ![c] = "load_dataset"]
       ELSE sem' = sem /\ pc' = [pc EXCEPT ![c] = "waiting"]
    /\ UNCHANGED <<max_concurrent, now, db_config, db_rows, reqvars, purevars>>

\* fetch_dataset(dataset_id) called by a caller other than fetch_all_active
FetchDataset(c, d) ==
    /\ LaunchFetch(c, d)
    /\ UNCHANGED allvars

\* a waiting call gets a slot that was released
AcquireSlot(c) ==
    /\ pc[c] = "waiting"
    /\ CanAcquire(sem)
    /\ sem' = sem - 1
    /\ pc' = [pc EXCEPT ![c] = "load_dataset"]
    /\ UNCHANGED <<max_concurrent, now, call, db_config, db_rows, reqvars, allvars, purevars>>

\* _do_fetch: "dataset = await session.get(Dataset, dataset_id)". The call
\* raises (the exception leaves _do_fetch), finds no row (the not-found
\* result is returned), or finds the row.
LoadDataset(c) ==
    /\ pc[c] = "load_dataset"
    /\ \/ /\ call' = [call EXCEPT ![c].exc = Some(DbError)]
          /\ pc' = [pc EXCEPT ![c] = "close"]
       \/ /\ ~DatasetFound(call[c].dataset_id)
          /\ call' = [call EXCEPT ![c].result =
                [InitialResult EXCEPT !.error_message =
                    NotFoundMessage(call[c].dataset_id)]]
          /\ pc' = [pc EXCEPT ![c] = "rollback"]
       \/ /\ DatasetFound(call[c].dataset_id)
          /\ call' = call
          /\ pc' = [pc EXCEPT ![c] = "load_config"]
    /\ UNCHANGED <<max_concurrent, sem, now, db_config, db_rows, reqvars, allvars, purevars>>

\* _do_fetch: "fetch_config = (await session.execute(...)).scalar_one_or_none()":
\* raises, or loads the committed FetchConfig row of the dataset, if any
LoadConfig(c) ==
    /\ pc[c] = "load_config"
    /\ \/ /\ call' = [call EXCEPT ![c].exc = Some(DbError)]
          /\ pc' = [pc EXCEPT ![c] = "close"]
       \/ /\ LET d == call[c].dataset_id IN
             call' = [call EXCEPT
                ![c].loaded_config =
                    IF d \in DOMAIN db_config THEN Some(db_config[d]) ELSE NoConfig,
                ![c].fetch_config =
                    IF d \in DOMAIN db_config THEN Some(db_config[d]) ELSE NoConfig]
          /\ pc' = [pc EXCEPT ![c] = "fetch"]
    /\ UNCHANGED <<max_concurrent, sem, now, db_config, db_rows, reqvars, allvars, purevars>>

\* The three except clauses of _do_fetch for an exception e raised inside
\* its try block: the error message, the failed status on the loaded
\* FetchConfig, and the return of the failed result
FailFetchWith(c, e, fetched) ==
    /\ call' = [call EXCEPT
          ![c].result.records_fetched = fetched,
          ![c].result.error_message = Prefixed(ErrorPrefix(e), Str(e)),
          ![c].fetch_config =
              IF HasConfig(c)
              THEN Some(UpdateFetchStatus(call[c].fetch_config[1], FALSE, Str(e), now))
              ELSE call[c].fetch_config,
          ![c].status_update = IF HasConfig(c) THEN Some(now) ELSE None,
          ![c].status_message = IF HasConfig(c) THEN Str(e) ELSE NullMessage]
    /\ pc' = [pc EXCEPT ![c] = IF CommitsWhen(call'[c].result) THEN "commit" ELSE "rollback"]

FailFetch(c, e) == FailFetchWith(c, e, call[c].result.records_fetched)

\* _do_fetch: "statfin_data = await self.client.fetch_and_parse(...)" raises e
FetchFails(c, e) ==
    /\ pc[c] = "fetch"
    /\ FailFetch(c, e)
    /\ UNCHANGED <<max_concurrent, sem, now, db_config, db_rows, reqvars, allvars, purevars>>

\* _do_fetch: fetch_and_parse returns a cube of the given number of cells:
\* records_fetched = total_cells, and normalize_records builds the given
\* number of records, at most one per cell
ReceiveCube(c, cells, records) ==
    /\ pc[c] = "fetch"
    /\ records <= cells
    /\ call' = [call EXCEPT ![c].result.records_fetched = cells,
                            ![c].batch = records]
    /\ pc' = [pc EXCEPT ![c] = "store"]
    /\ UNCHANGED <<max_concurrent, sem, now, db_config, db_rows, reqvars, allvars>>
FetchSucceeds(c, cells, records) ==
    /\ ReceiveCube(c, cells, records)
    /\ UNCHANGED purevars

\* _do_fetch: "await self._store_records(...)" (the reads of the valid codes
\* raise, or every record of the batch is added to the session), then the
\* success status on the loaded FetchConfig and result.success = True
StoreRecords(c) ==
    /\ pc[c] = "store"
    /\ \/ FailFetch(c, DbError)
       \/ /\ call' = [call EXCEPT
                ![c].pending_rows = call[c].batch,
                ![c].result.records_inserted = call[c].batch,
                ![c].result.success = TRUE,
                ![c].fetch_config =
                    IF HasConfig(c)
                    THEN Some(UpdateFetchStatus(call[c].fetch_config[1], TRUE,
                                                NullMessage, now))
                    ELSE call[c].fetch_config,
                ![c].status_update = IF HasConfig(c) THEN Some(now) ELSE None]
          /\ pc' = [pc EXCEPT ![c] = IF CommitsWhen(call'[c].result) THEN "commit" ELSE "rollback"]
    /\ UNCHANGED <<max_concurrent, sem, now, db_config, db_rows, reqvars, allvars, purevars>>

\* fetch_dataset: "await session.commit()". The transaction commits the
\* pending rows and the changed FetchConfig columns together, or the commit
\* raises and nothing of the transaction is stored.
Commit(c) ==
    /\ pc[c] = "commit"
    /\ \/ /\ db_rows' = [db_rows EXCEPT ![c] = @ + call[c].pending_rows]
          /\ db_config' =
                IF HasConfig(c)
                THEN [db_config EXCEPT ![call[c].dataset_id] =
                        CommitRow(@, call[c].loaded_config[1], call[c].fetch_config[1])]
                ELSE db_config
          /\ call' = [call EXCEPT ![c].pending_rows = 0,
                                  ![c].loaded_config = call[c].fetch_config,
                                  ![c].committed = TRUE]
       \/ /\ call' = [call EXCEPT ![c].pending_rows = 0,
                                  ![c].fetch_config = call[c].loaded_config,
                                  ![c].exc = Some(DbError)]
          /\ UNCHANGED <<db_config, db_rows>>
    /\ pc' = [pc EXCEPT ![c] = "close"]
    /\ UNCHANGED <<max_concurrent, sem, now, reqvars, allvars, purevars>>

\* fetch_dataset: "await session.rollback()": the session forgets the
\* pending rows and the changes of the loaded FetchConfig; the call may raise
Rollback(c) ==
    /\ pc[c] = "rollback"
    /\ \E e \in {NoException, Some(DbError)} :
         call' = [call EXCEPT ![c].pending_rows = 0,
                              ![c].fetch_config = call[c].loaded_config,
                              ![c].rolled_back = TRUE,
                              ![c].exc = e]
    /\ pc' = [pc EXCEPT ![c] = "close"]
    /\ UNCHANGED <<max_concurrent, sem, now, db_config, db_rows, reqvars, allvars, purevars>>

\* fetch_dataset: "finally: await session.close()" (which may raise), then
\* "except Exception as e: result.error_message = str(e)" for an exception
\* of this call, the release of the slot, and "return result"
CloseAndReturn(c) ==
    /\ pc[c] = "close"
    /\ \E e \in {call[c].exc, Some(DbError)} :
         call' = [call EXCEPT
            ![c].pending_rows = 0,
            ![c].batch = 0,
            ![c].loaded_config = NoConfig,
            ![c].fetch_config = NoConfig,
            ![c].exc = e,
            ![c].result.error_message =
                IF e # NoException THEN Str(e[1]) ELSE call[c].result.error_message]
    /\ sem' = Release(sem)
    /\ pc' = [pc EXCEPT ![c] = "done"]
    /\ UNCHANGED <<max_concurrent, now, db_config, db_rows, reqvars, allvars, purevars>>

\* time passes
Tick ==
    /\ now < MaxClock
    /\ now' = now + 1
    /\ UNCHANGED <<max_concurrent, sem, pc, call, db_config, db_rows, reqvars, allvars, purevars>>

\* Spec: two fetch_dataset calls, concurrent when max_concurrent allows it,
\* with every outcome of every step
FetchCalls == {1, 2}

Next ==
    \/ \E c \in FetchCalls : \E d \in DatasetIds : FetchDataset(c, d)
    \/ \E c \in FetchCalls : AcquireSlot(c)
    \/ \E c \in FetchCalls : LoadDataset(c)
    \/ \E c \in FetchCalls : LoadConfig(c)
    \/ \E c \in FetchCalls : \E e \in FetchErrors : FetchFails(c, e)
    \/ \E c \in FetchCalls : \E cells \in 0..MaxCells : \E records \in 0..cells :
            FetchSucceeds(c, cells, records)
    \/ \E c \in FetchCalls : StoreRecords(c)
    \/ \E c \in FetchCalls : Commit(c)
    \/ \E c \in FetchCalls : Rollback(c)
    \/ \E c \in FetchCalls : CloseAndReturn(c)
    \/ Tick

Spec == Init /\ [][Next]_vars

\* SpecSlots: NumCalls fetch_dataset calls competing for the slots, on one
\* dataset without FetchConfig and one unknown id, with one kind of fetch error and
\* one cube size
NextSlots ==
    \/ \E c \in Calls : \E d \in {"d3", "missing"} : FetchDataset(c, d)
    \/ \E c \in Calls : AcquireSlot(c)
    \/ \E c \in Calls : LoadDataset(c)
    \/ \E c \in Calls : LoadConfig(c)
    \/ \E c \in Calls : FetchFails(c, StatFinRateLimitError(30))
    \/ \E c \in Calls : FetchSucceeds(c, MaxCells, MaxCells)
    \/ \E c \in Calls : StoreRecords(c)
    \/ \E c \in Calls : Commit(c)
    \/ \E c \in Calls : Rollback(c)
    \/ \E c \in Calls : CloseAndReturn(c)

SpecSlots == Init /\ [][NextSlots]_vars

\* SpecSlotsFair: the same calls when every awaited database or transport
\* call of a call that holds a slot ends, and asyncio.Semaphore wakes every
\* waiter in its turn when slots are given back
Proceed(c) ==
    \/ LoadDataset(c)
    \/ LoadConfig(c)
    \/ FetchFails(c, StatFinRateLimitError(30))
    \/ FetchSucceeds(c, MaxCells, MaxCells)
    \/ StoreRecords(c)
    \/ Commit(c)
    \/ Rollback(c)
    \/ CloseAndReturn(c)
SlotsFairness == \A c \in Calls : WF_vars(Proceed(c)) /\ SF_vars(AcquireSlot(c))
SpecSlotsFair == Init /\ [][NextSlots]_vars /\ SlotsFairness

(***************************************************************************)
(* fetch_dataset on a response document: parse_jsonstat, get_data_points   *)
(***************************************************************************)
\* _do_fetch from "statfin_data = await self.client.fetch_and_parse(...)"
\* to "normalized_records = normalizer.normalize_records(statfin_data)",
\* when the request returned the document doc: parse_jsonstat raises; or
\* records_fetched = total_cells and get_data_points raises inside
\* normalize_records; or the data points are normalized, to no record or to
\* one record per data point
FetchDocument(c, doc) ==
    /\ pc[c] = "fetch"
    /\ LET ds == ParseJsonstat(doc)
           dp == IF ds.error = None THEN GetDataPoints(ds)
                 ELSE [error |-> None, points |-> <<>>]
       IN  /\ cube' = [pc |-> "parsed", doc |-> doc, dataset |-> ds, data_points |-> dp]
           /\ norm' = norm
           /\ IF ds.error # None
              THEN /\ FailFetch(c, ds.error[1])
                   /\ UNCHANGED <<max_concurrent, sem, now, db_config, db_rows,
                                  reqvars, allvars>>
              ELSE IF dp.error # None
              THEN /\ FailFetchWith(c, dp.error[1], TotalCells(ds))
                   /\ UNCHANGED <<max_concurrent, sem, now, db_config, db_rows,
                                  reqvars, allvars>>
              ELSE \E records \in {0, Len(dp.points)} :
                        ReceiveCube(c, TotalCells(ds), records)

\* The response of the population table "Alue, Vuosi ja Tiedot": three
\* regions, two years, one measure, six values. The ids of its dimensions
\* are 1..3 for the ids of SampleLayout, and the codes of the categories of
\* a dimension are 0..n-1 for the codes of SampleCodes
SampleValues == <<5548241, 5563970, 1734634, 1751717, 479341, 481143>>
SampleDocument ==
    [fields |-> AllFields,
     id |-> <<1, 2, 3>>,
     size |-> <<3, 2, 1>>,
     dimension |-> <<3, 2, 1>>,
     value |-> [i \in 1..6 |-> [kind |-> "number", v |-> SampleValues[i]]]]
SampleCodes ==
    <<<<<<"S", "S", "S">>, <<"M", "K", "0", "1">>, <<"M", "K", "0", "2">>>>,
      <<<<"2", "0", "2", "2">>, <<"2", "0", "2", "3">>>>,
      <<<<"v", "a", "e", "s", "t", "o">>>>>>
\* a data point of the sample cube with the ids and codes written out
SamplePoint(point) ==
    [value |-> point.value,
     coordinates |->
        [id \in {SampleLayout[k] : k \in DOMAIN point.coordinates} |->
            LET k == CHOOSE k \in 1..3 : SampleLayout[k] = id
            IN  SampleCodes[k][point.coordinates[k] + 1]]]

\* _do_fetch from fetch_and_parse to normalize_records when the request
\* returned the sample response: the dataset is parsed, records_fetched =
\* total_cells, and its data points are normalized
FetchSample(c) ==
    /\ pc[c] = "fetch"
    /\ LET ds == ParseJsonstat(SampleDocument)
           dp == GetDataPoints(ds)
           records == NormalizeRecords(SampleLayout,
                        [i \in 1..Len(dp.points) |-> SamplePoint(dp.points[i])])
       IN  /\ cube' = [pc |-> "sample", doc |-> SampleDocument, dataset |-> ds,
                       data_points |-> dp, records |-> records]
           /\ norm' = norm
           /\ ReceiveCube(c, TotalCells(ds), Len(records))

\* SpecCube: one fetch_dataset call whose request returns any document
NextCube ==
    \/ FetchDataset(1, "d1")
    \/ LoadDataset(1)
    \/ LoadConfig(1)
    \/ \E doc \in Documents : FetchDocument(1, doc)
    \/ FetchSample(1)
    \/ StoreRecords(1)
    \/ Commit(1)
    \/ Rollback(1)
    \/ CloseAndReturn(1)

SpecCube == Init /\ [][NextCube]_vars

(***************************************************************************)
(* DataNormalizer on its own: parse_time_value and normalize_records       *)
(***************************************************************************)
\* normalizer.parse_time_value(time_code)
ParseTime(code) ==
    /\ norm.pc = "idle"
    /\ norm' = [pc |-> "parsed_time", code |-> code, time |-> ParseTimeValue(code)]
    /\ UNCHANGED <<cube, reqvars, fetchvars, allvars>>

\* normalizer.normalize_records(statfin_data) for a dataset of the given
\* dimensions whose get_data_points() returns the given data points
Normalize(dims, points) ==
    /\ norm.pc = "idle"
    /\ norm' = [pc |-> "normalized", dimensions |-> dims, data_points |-> points,
                records |-> NormalizeRecords(dims, points)]
    /\ UNCHANGED <<cube, reqvars, fetchvars, allvars>>

\* normalizer.identify_dimensions(statfin_data) for a dataset of the given
\* dimensions
Identify(dims) ==
    /\ norm.pc = "idle"
    /\ norm' = [pc |-> "identified", dimensions |-> dims,
                roles |-> IdentifyDimensions(dims)]
    /\ UNCHANGED <<cube, reqvars, fetchvars, allvars>>

\* normalizer.normalize_region_code(code)
NormalizeRegion(code) ==
    /\ norm.pc = "idle"
    /\ norm' = [pc |-> "region", code |-> code,
                region_code |-> NormalizeRegionCode(code)]
    /\ UNCHANGED <<cube, reqvars, fetchvars, allvars>>

\* fetcher._store_records(session, dataset, records) when the reference
\* tables hold the given codes
StoreBatch(records, valid_regions, valid_industries) ==
    /\ norm.pc = "idle"
    /\ norm' = [pc |-> "stored", records |-> records,
                valid_regions |-> valid_regions,
                valid_industries |-> valid_industries,
                stored |-> StoreResult(records, valid_regions, valid_industries)]
    /\ UNCHANGED <<cube, reqvars, fetchvars, allvars>>

\* SpecNorm: one call of one of the functions, on any of its inputs
NextNorm ==
    \/ /\ norm.pc = "idle"
       /\ \E code \in TimeCodes : ParseTime(code)
    \/ /\ norm.pc = "idle"
       /\ \E m \in 0..MaxPoints :
          \E codes \in [1..m -> RecordRegionCodes \X RecordIndustryCodes] :
          \E valid_regions \in RegionTables : \E valid_industries \in IndustryTables :
             StoreBatch(RecordsOf(codes), valid_regions, valid_industries)
    \/ /\ norm.pc = "idle"
       /\ \E code \in RegionCodes : NormalizeRegion(code)
    \/ /\ norm.pc = "idle"
       /\ \E m \in 0..MaxRoleDims : \E dims \in [1..m -> RoleDimensions] :
             HasDifferentIds(dims) /\ Identify(dims)
    \/ /\ norm.pc = "idle"
       /\ \E dims \in Layouts : \E m \in 0..MaxPoints :
          \E coordinates \in [1..m -> CoordinatesOf(dims)] :
             Normalize(dims, DataPointsAt(coordinates))

SpecNorm == Init /\ [][NextNorm]_vars

(***************************************************************************)
(* DataFetcher.fetch_all_active: one run on a DataFetcher of its own       *)
(***************************************************************************)
\* FetchConfig.priority: the default and a more urgent one
Priorities == {0, 1}
\* next_fetch_at of a row before the run: never scheduled, elapsed, or the
\* last hour of the clock
NextFetchTimes == {None, Some(0), Some(MaxClock)}

ScheduledConfigs ==
    [Datasets -> {FetchConfigRow(1, "pending", None, NullMessage, nx, 0) :
                    nx \in NextFetchTimes}]
Schedules ==
    [Datasets -> {ScheduleRow(a, p) : a \in BOOLEAN, p \in Priorities}]

InitAll ==
    /\ RequestState(MAX_RETRIES)
    /\ \E rows \in ScheduledConfigs :
            FetcherStateWith(MAX_CONCURRENT_FETCHES, rows)
    /\ \E s \in Schedules : SchedulerState(s)
    /\ PureState

\* "select(FetchConfig).where(FetchConfig.is_active == True)", and for
\* force = False the where clause on next_fetch_at
Selected(force, t) ==
    {d \in DOMAIN db_config :
        /\ sched[d].is_active
        /\ force \/ IsDue(db_config[d].next_fetch_at, t)}

\* "query.order_by(FetchConfig.priority.desc(), FetchConfig.next_fetch_at.asc())":
\* row a sorts strictly before row b
ComesBefore(a, b, nullsFirst) ==
    \/ PriorityFirst(sched[a].priority, sched[b].priority)
    \/ /\ sched[a].priority = sched[b].priority
       /\ NextFetchFirst(db_config[a].next_fetch_at, db_config[b].next_fetch_at,
                         nullsFirst)

\* The row orders the query can return for the rows S: rows that compare
\* equal come in any order
OrderBy(S, nullsFirst) ==
    {seq \in Orderings(S) :
        \A i, j \in 1..Cardinality(S) :
            i < j => ~ComesBefore(seq[j], seq[i], nullsFirst)}

\* fetch_all_active(force) up to "configs = result.scalars().all()": the
\* query raises, or returns the selected rows in order; "if not configs:
\* return results"
FetchAllActive(force) ==
    /\ run.pc = "idle"
    /\ \/ run' = [run EXCEPT !.pc = "raised", !.force = force]
       \/ \E nullsFirst \in BOOLEAN :
            \E seq \in OrderBy(Selected(force, now), nullsFirst) :
                run' = [run EXCEPT
                    !.force = force,
                    !.at = Some(now),
                    !.seen = [d \in DOMAIN db_config |-> db_config[d].next_fetch_at],
                    !.configs = seq,
                    !.pc = IF seq = <<>> THEN "exit" ELSE "next"]
    /\ UNCHANGED <<sched, fetchvars, reqvars, purevars>>

\* The fetch_dataset call of the current iteration of "for config in configs"
RunCall == Len(run.results) + 1

\* "fetch_result = await self.fetch_dataset(config.dataset_id)" is called
\* for the next row of configs
FetchNext ==
    /\ run.pc = "next"
    /\ LaunchFetch(RunCall, run.configs[RunCall])
    /\ run' = [run EXCEPT !.pc = "await"]
    /\ UNCHANGED sched

\* "if len(configs) > 1": the delay follows each fetch of a run that
\* selected several rows
NeedsDelayAboveTwo(configs) == Len(configs) > 2
NeedsDelay(configs) == Len(configs) > 1

\* fetch_dataset returned (its locals are gone): "results.append(fetch_result)",
\* then the delay "if len(configs) > 1", or the next iteration, or the end
\* of the loop
CollectResult ==
    /\ run.pc = "await"
    /\ pc[RunCall] = "done"
    /\ run' = [run EXCEPT
            !.results = Append(@, [dataset_id |-> call[RunCall].dataset_id,
                                   success |-> call[RunCall].result.success]),
            !.waited = 0,
            !.pc = IF NeedsDelay(run.configs) THEN "sleep"
                   ELSE IF RunCall < Len(run.configs) THEN "next" ELSE "exit"]
    /\ call' = [call EXCEPT ![RunCall] = IdleCall]
    /\ pc' = [pc EXCEPT ![RunCall] = "collected"]
    /\ UNCHANGED <<sched, max_concurrent, sem, now, db_config, db_rows,
                   reqvars, purevars>>

\* "await asyncio.sleep(self.MIN_FETCH_DELAY)" ends: at least that many
\* seconds have passed (within the hour of the clock)
EndDelay ==
    /\ run.pc = "sleep"
    /\ run' = [run EXCEPT
            !.waited = @ + MIN_FETCH_DELAY,
            !.pc = IF Len(run.results) < Len(run.configs) THEN "next" ELSE "exit"]
    /\ UNCHANGED <<sched, fetchvars, reqvars, purevars>>

\* The end of "async with async_session_maker() as session" (closing the
\* session may raise) and "return results"
ReturnResults ==
    /\ run.pc = "exit"
    /\ \E p \in {"returned", "raised"} : run' = [run EXCEPT !.pc = p]
    /\ UNCHANGED <<sched, fetchvars, reqvars, purevars>>

\* SpecAll: one fetch_all_active run, at any time of the clock, whose
\* fetches end in every way a fetch_dataset call can end
NextAll ==
    \/ run.pc = "idle" /\ Tick
    \/ \E force \in BOOLEAN : FetchAllActive(force)
    \/ FetchNext
    \/ \E c \in Calls : LoadDataset(c)
    \/ \E c \in Calls : LoadConfig(c)
    \/ \E c \in Calls : FetchFails(c, StatFinRateLimitError(30))
    \/ \E c \in Calls : FetchSucceeds(c, MaxCells, MaxCells)
    \/ \E c \in Calls : StoreRecords(c)
    \/ \E c \in Calls : Commit(c)
    \/ \E c \in Calls : Rollback(c)
    \/ \E c \in Calls : CloseAndReturn(c)
    \/ CollectResult
    \/ EndDelay
    \/ ReturnResults

SpecAll == InitAll /\ [][NextAll]_vars

(***************************************************************************)
(* Properties of one transport operation (checked under SpecRequest)       *)
(***************************************************************************)
Attempts == Len(responses)
RequestDone == req_pc = "done"
LastResponse == responses[Len(responses)]
EveryAttempt(P(_)) == Attempts >= 1 /\ \A i \in 1..Attempts : P(responses[i])

Is5xx(resp) == resp.kind = "http" /\ resp.status >= 500 /\ resp.status <= 599
Is429(resp) == resp.kind = "http" /\ resp.status = 429
Is4xxNot429(resp) ==
    resp.kind = "http" /\ resp.status >= 400 /\ resp.status <= 499 /\ resp.status # 429
IsTransportFailure(resp) == resp.kind \in {"timeout", "request_error"}

RECURSIVE Pow2(_)
Pow2(k) == IF k = 0 THEN 1 ELSE 2 * Pow2(k - 1)

\* C2: a transport operation makes at most max_retries + 1 attempts; when
\* every attempt returned a 5xx status, it has made exactly max_retries + 1
\* attempts once it ends, and it ends with the server error that carries the
\* status code of the last response.
C2_ServerErrorExhaustsRetries ==
    /\ Attempts <= max_retries + 1
    /\ (RequestDone /\ EveryAttempt(Is5xx)) =>
        /\ Attempts = max_retries + 1
        /\ outcome.kind = "StatFinError"
        /\ outcome.message = "Server error"
        /\ outcome.status_code = Some(LastResponse.status)

\* max_retries = 1, the responses 500 then 503: two attempts, error status 503
C2_Witness ==
    /\ RequestDone
    /\ max_retries = 1
    /\ Attempts = 2
    /\ EveryAttempt(Is5xx)
    /\ responses[1].status = 500
    /\ responses[2].status = 503
    /\ outcome.status_code = Some(503)

\* C3: when every attempt returned 429, the operation ends after exactly
\* max_retries + 1 attempts with StatFinRateLimitError, status 429, whose
\* retry_after is the Retry-After value of the last response (the current
\* backoff when that response has no such header); it slept once per retry,
\* so with max_retries = 0 it did not sleep at all.
C3_RateLimitExhaustsRetries ==
    (RequestDone /\ EveryAttempt(Is429)) =>
        /\ Attempts = max_retries + 1
        /\ outcome.kind = "StatFinRateLimitError"
        /\ outcome.status_code = Some(429)
        /\ LastResponse.header # NoHeader =>
              outcome.retry_after = Some(ParseInt(LastResponse.header[1]))
        /\ LastResponse.header = NoHeader => outcome.retry_after = Some(retry_delay)
        /\ Len(sleeps) = max_retries
        /\ max_retries = 0 => sleeps = <<>>

\* max_retries = 0 and one 429 with "Retry-After: 30": one attempt, no
\* sleep, retry_after = 30
C3_Witness ==
    /\ RequestDone
    /\ max_retries = 0
    /\ Attempts = 1
    /\ Is429(responses[1])
    /\ responses[1].header = Some(<<3, 0>>)
    /\ outcome.kind = "StatFinRateLimitError"
    /\ outcome.retry_after = Some(30)
    /\ sleeps = <<>>

\* C4: an attempt that returned a 4xx status other than 429 is the last
\* attempt of the operation, whatever came before it and however many
\* retries remain: the operation has ended with the client error carrying
\* that status, and no sleep followed the attempt.
C4_ClientErrorNotRetried ==
    \A i \in 1..Attempts :
        Is4xxNot429(responses[i]) =>
            /\ i = Attempts
            /\ RequestDone
            /\ outcome.kind = "StatFinError"
            /\ outcome.message = "Client error"
            /\ outcome.status_code = Some(responses[i].status)
            /\ Len(sleeps) = i - 1

\* a 404 after a retried failure, with retries still remaining
C4_Witness ==
    /\ RequestDone
    /\ Attempts = 2
    /\ Is5xx(responses[1])
    /\ Is4xxNot429(responses[2])
    /\ responses[2].status = 404
    /\ attempt < max_retries
    /\ outcome.status_code = Some(404)

\* C5: when every attempt ended in a timeout or a connection error, the
\* operation ends after exactly max_retries + 1 attempts with the
\* StatFinError that has no status code and whose message names
\* max_retries + 1 attempts; between the attempts it slept the backoff
\* 1, 2, 4, ... (capped at MAX_RETRY_DELAY), once per retry.
C5_TransportFailureExhaustsRetries ==
    (RequestDone /\ EveryAttempt(IsTransportFailure)) =>
        /\ Attempts = max_retries + 1
        /\ outcome.kind = "StatFinError"
        /\ outcome.message = "Request failed after N attempts"
        /\ outcome.attempts_in_message = Some(max_retries + 1)
        /\ outcome.status_code = None
        /\ Len(sleeps) = max_retries
        /\ \A k \in 1..Len(sleeps) :
              sleeps[k] = Min(INITIAL_RETRY_DELAY * Pow2(k - 1), MAX_RETRY_DELAY)

\* max_retries = 2 and three timeouts: three attempts, sleeps 1 and 2
C5_Witness ==
    /\ RequestDone
    /\ max_retries = 2
    /\ Attempts = 3
    /\ \A i \in 1..3 : responses[i].kind = "timeout"
    /\ sleeps = <<1, 2>>
    /\ outcome.attempts_in_message = Some(3)

(***************************************************************************)
(* Properties of fetch_dataset                                             *)
(***************************************************************************)
\* the calls that hold a slot of the semaphore
Holding(c) ==
    pc[c] \in {"load_dataset", "load_config", "fetch", "store", "commit",
               "rollback", "close"}
InFlight(c) == pc[c] = "fetch"
HasReturned(c) == pc[c] = "done"
\* the step in which fetch_dataset returns its result
Returns(c) == pc[c] = "close" /\ pc'[c] = "done"

\* C1: at most max_concurrent calls are between acquiring and releasing the
\* semaphore, hence at most max_concurrent requests to StatFin are in flight
\* (checked under SpecSlots).
C1_SlotsBoundRequests ==
    /\ Cardinality({c \in Calls : Holding(c)}) <= max_concurrent
    /\ Cardinality({c \in Calls : InFlight(c)}) <= max_concurrent
    /\ sem = max_concurrent - Cardinality({c \in Calls : Holding(c)})

\* every slot is taken by a request in flight while another call waits
C1_Witness ==
    /\ max_concurrent = 2
    /\ Cardinality({c \in Calls : InFlight(c)}) = 2
    /\ \E c \in Calls : pc[c] = "waiting"

\* a step of the call failed: an exception was raised in it, or its
\* transaction was not committed
StepFailed(c) == call[c].exc # NoException \/ ~call[c].committed

\* C6: a fetch_dataset call in which a step failed (transport, decode,
\* persistence) returns a FetchResult with success = false and a non-null
\* error_message.
C6_FailureGivesFailedResult ==
    \A c \in FetchCalls :
        (HasReturned(c) /\ StepFailed(c)) =>
            /\ ~call[c].result.success
            /\ call[c].result.error_message # None

\* C7: after fetch_dataset returned, either result.success = true and every
\* row built from the batch is committed, or result.success = false and no
\* row of the batch is committed.
C7_AllOrNothing ==
    \A c \in FetchCalls :
        HasReturned(c) =>
            \/ call[c].result.success /\ db_rows[c] = call[c].result.records_inserted
            \/ ~call[c].result.success /\ db_rows[c] = 0

\* C8: when fetch_dataset returns a failed result for a fetch error on a
\* source with a FetchConfig, the committed FetchConfig of the source has
\* last_fetch_status = "failed" and last_error_message = the error's message.
C8_FailedStatusPersisted ==
    [][\A c \in FetchCalls :
        (Returns(c) /\ ~call'[c].result.success /\ HasConfig(c)
                    /\ call[c].status_update # None) =>
            /\ db_config'[call[c].dataset_id].last_fetch_status = "failed"
            /\ db_config'[call[c].dataset_id].last_error_message = call[c].status_message
      ]_vars

\* C9: when fetch_dataset returns success = true for a source with a
\* FetchConfig, the committed FetchConfig has last_fetch_status = "success",
\* last_fetch_at = the time of the fetch, last_error_message = None and a
\* fetch_count of at least 1.
C9_SuccessStatusPersisted ==
    [][\A c \in FetchCalls :
        (Returns(c) /\ call'[c].result.success /\ HasConfig(c)) =>
            /\ db_config'[call[c].dataset_id].last_fetch_status = "success"
            /\ db_config'[call[c].dataset_id].last_fetch_at = call[c].status_update
            /\ db_config'[call[c].dataset_id].last_error_message = NullMessage
            /\ db_config'[call[c].dataset_id].fetch_count >= 1
      ]_vars

\* C10: when fetch_dataset returns, successful or not, after a status update
\* on a source with a FetchConfig, the committed next_fetch_at of the source
\* is the time of the status update plus fetch_interval_hours.
C10_NextFetchScheduled ==
    [][\A c \in FetchCalls :
        (Returns(c) /\ HasConfig(c) /\ call[c].status_update # None) =>
            db_config'[call[c].dataset_id].next_fetch_at =
                Some(call[c].status_update[1]
                     + db_config'[call[c].dataset_id].fetch_interval_hours)
      ]_vars

(***************************************************************************)
(* fetch_dataset with an unknown dataset id (checked under Spec)           *)
(***************************************************************************)
\* the call c was launched with an id that has no Dataset row
UnknownId(c) == pc[c] # "idle" /\ call[c].dataset_id \notin Datasets

\* what an unknown id never causes: no request to the remote API (the call
\* never reaches fetch_and_parse), no row written, no FetchConfig changed by
\* a step of the call, and the slot is released at the return
NoEffectOfUnknownId(c) ==
    /\ pc'[c] \notin {"load_config", "fetch", "store", "commit"}
    /\ db_rows'[c] = 0
    /\ pc'[c] # pc[c] => db_config' = db_config
    /\ Returns(c) => sem' = sem + 1 /\ ~call'[c].result.success

\* C11 as stated: fetch_dataset with a dataset id unknown to persistence
\* returns success = false and an error_message naming the missing id,
\* sends no request, writes no record, changes no fetch status and releases
\* its slot.
C11_UnknownIdNamesId ==
    [][\A c \in FetchCalls :
        UnknownId(c) =>
            /\ NoEffectOfUnknownId(c)
            /\ Returns(c) =>
                  call'[c].result.error_message = NotFoundMessage(call[c].dataset_id)
      ]_vars

\* C11, amended: the same, except that the error_message names the missing
\* id only when no persistence call of the fetch (the lookup, the rollback,
\* the close of the session) raised; when one raised, the error_message is
\* the text of that exception.
C11_UnknownIdReported ==
    [][\A c \in FetchCalls :
        UnknownId(c) =>
            /\ NoEffectOfUnknownId(c)
            /\ Returns(c) =>
                  call'[c].result.error_message =
                      IF call'[c].exc = NoException
                      THEN NotFoundMessage(call[c].dataset_id)
                      ELSE Str(call'[c].exc[1])
      ]_vars

\* a call for "missing" has returned the not-found result after its
\* rollback, and every slot is free again
C11_Witness ==
    \E c \in FetchCalls :
        /\ HasReturned(c)
        /\ call[c].dataset_id = "missing"
        /\ call[c].rolled_back
        /\ call[c].exc = NoException
        /\ ~call[c].result.success
        /\ call[c].result.error_message = NotFoundMessage("missing")
        /\ sem = max_concurrent

(***************************************************************************)
(* Properties of fetch_all_active (checked under SpecAll)                  *)
(***************************************************************************)
\* the query of the run has returned its rows
Queried == run.at # None
\* the loop over the rows has ended
LoopEnded == Queried /\ run.pc \in {"exit", "returned", "raised"}

\* the sources the run has to fetch, from what the database held at the
\* time of the query: active, and for force = false due
ExpectedSources ==
    {d \in DOMAIN run.seen :
        /\ sched[d].is_active
        /\ \/ run.force
           \/ run.seen[d] = None
           \/ run.seen[d] # None /\ run.seen[d][1] <= run.at[1]}

\* the sources for which a fetch_dataset call of the run has returned, and
\* those for which one was called
FetchedSources == {run.results[i].dataset_id : i \in 1..Len(run.results)}
CalledSources ==
    FetchedSources
    \cup {call[c].dataset_id : c \in {e \in Calls : pc[e] \notin {"idle", "collected"}}}

\* C12: fetch_all_active(force=false) calls fetch_dataset for exactly the
\* active sources whose next_fetch_at is null or <= now, and
\* fetch_all_active(force=true) for exactly the active sources; an inactive
\* source is never fetched, and each selected source is fetched once.
C12_FetchesExactlyTheDueSources ==
    Queried =>
        /\ CalledSources \subseteq ExpectedSources
        /\ \A d \in CalledSources : sched[d].is_active
        /\ Cardinality(FetchedSources) = Len(run.results)
        /\ LoopEnded => FetchedSources = ExpectedSources

\* a run with force = false, started before the last hour of the clock,
\* has returned after fetching one source, having left out an inactive
\* source that was due and an active one that was not
C12_Witness ==
    /\ run.pc = "returned"
    /\ ~run.force
    /\ run.at = Some(MaxClock - 1)
    /\ Len(run.results) = 1
    /\ \E d \in DOMAIN run.seen : ~sched[d].is_active /\ run.seen[d] = None
    /\ \E d \in DOMAIN run.seen : sched[d].is_active /\ run.seen[d] = Some(MaxClock)

\* C13: the selected sources are fetched one after the other in the order
\* priority descending, then next_fetch_at ascending: a fetch starts only
\* after the one before it has returned, a failed fetch does not stop the
\* remaining ones, and the returned list holds one FetchResult per selected
\* source in that order.
C13_SequentialInPriorityOrder ==
    /\ \A c, e \in Calls : (c < e /\ pc[e] # "idle") => pc[c] = "collected"
    /\ Queried =>
        /\ \A i, j \in 1..Len(run.configs) :
              i < j =>
                LET a == run.configs[i]
                    b == run.configs[j]
                IN  /\ sched[a].priority >= sched[b].priority
                    /\ (/\ sched[a].priority = sched[b].priority
                        /\ run.seen[a] # None
                        /\ run.seen[b] # None) => run.seen[a][1] <= run.seen[b][1]
        /\ \A i \in 1..Len(run.results) :
              run.results[i].dataset_id = run.configs[i]
        /\ \A c \in Calls :
              pc[c] \notin {"idle", "collected"} =>
                  c = Len(run.results) + 1 /\ call[c].dataset_id = run.configs[c]
        /\ run.pc = "returned" => Len(run.results) = Len(run.configs)

\* a run over three sources of two priorities and two schedule times has
\* returned three results, the first one failed and a later one successful
C13_Witness ==
    /\ run.pc = "returned"
    /\ Len(run.results) = 3
    /\ ~run.results[1].success
    /\ run.results[3].success
    /\ sched[run.configs[1]].priority > sched[run.configs[3]].priority
    /\ \E i \in 1..2 :
          /\ sched[run.configs[i]].priority = sched[run.configs[i + 1]].priority
          /\ run.seen[run.configs[i]] = Some(0)
          /\ run.seen[run.configs[i + 1]] = Some(MaxClock)

(***************************************************************************)
(* Properties of the decoding of a document (checked under SpecCube)       *)
(***************************************************************************)
\* a document was received, and parse_jsonstat returned a StatFinDataset
Received == cube.pc = "parsed"
Parsed == Received /\ cube.dataset.error = None

\* the mixed-radix formulas: the k-th coordinate of a flat index, and the
\* flat index of a coordinate tuple
MixedRadixCoordinate(sizes, i, k) == (i \div ProductFrom(sizes, k + 1)) % sizes[k]
RECURSIVE MixedRadixIndex(_, _, _)
MixedRadixIndex(sizes, coords, k) ==
    IF k > Len(sizes) THEN 0
    ELSE coords[k] * ProductFrom(sizes, k + 1) + MixedRadixIndex(sizes, coords, k + 1)

\* a valid cube document: the required fields and the size list are there,
\* every declared dimension is described, the sizes are the category counts
\* and the value array has product(sizes) entries
ValidDocument(doc) ==
    /\ AllFields \subseteq doc.fields
    /\ DOMAIN doc.dimension = 1..Len(doc.id)
    /\ Len(doc.size) = Len(doc.id)
    /\ \A k \in 1..Len(doc.id) : doc.size[k] = doc.dimension[k]
    /\ Len(doc.value) = Product(doc.size)

\* C14: for every sizes vector (also with two equal sizes) and every flat
\* index i below the product of the sizes, _index_to_coordinates(i) is the
\* tuple whose k-th component is (i // product(s_{k+1..})) mod s_k, and
\* encoding that tuple with the mixed-radix formula gives i back.
C14_DecodeIsMixedRadix ==
    (Parsed /\ ValidDocument(cube.doc)) =>
        LET sizes == cube.dataset.sizes IN
        \A i \in 0..(Product(sizes) - 1) :
            /\ IndexToCoordinates(sizes, i) =
                    [k \in 1..Len(sizes) |-> MixedRadixCoordinate(sizes, i, k)]
            /\ MixedRadixIndex(sizes, IndexToCoordinates(sizes, i), 1) = i

\* C15: for every valid cube document, the dataset of parse_jsonstat has
\* len(values) = product(sizes), and get_data_points() returns len(values)
\* data points, the i-th one carrying values[i]; null and non-numeric
\* entries of the value array become None at their position.
C15_OneDataPointPerValue ==
    (Received /\ ValidDocument(cube.doc)) =>
        LET ds == cube.dataset
            dp == cube.data_points
        IN  /\ ds.error = None
            /\ Len(ds.values) = Product(ds.sizes)
            /\ Len(ds.values) = Len(cube.doc.value)
            /\ \A i \in 1..Len(cube.doc.value) :
                  ds.values[i] =
                      IF cube.doc.value[i].kind \in {"null", "text"}
                      THEN None ELSE Some(cube.doc.value[i].v)
            /\ dp.error = None
            /\ Len(dp.points) = Len(ds.values)
            /\ \A i \in 1..Len(dp.points) : dp.points[i].value = ds.values[i]

\* a valid document of two dimensions of two categories each was decoded to
\* four data points, of which the one of a null entry and the one of a
\* non-numeric entry carry None
C15_Witness ==
    /\ Received
    /\ ValidDocument(cube.doc)
    /\ cube.dataset.sizes = <<2, 2>>
    /\ Len(cube.data_points.points) = 4
    /\ cube.doc.value[1].kind = "null"
    /\ cube.doc.value[3].kind = "text"
    /\ cube.data_points.points[1].value = None
    /\ cube.data_points.points[3].value = None
    /\ cube.data_points.points[4].value = Some(4)

\* C16: every dataset of parse_jsonstat has len(dimensions) = len(sizes),
\* with sizes[k] the number of categories of dimensions[k], also when a
\* declared dimension is skipped and when the size list of the document is
\* missing or disagrees with the category counts.
C16_SizesAreCategoryCounts ==
    Parsed =>
        /\ Len(cube.dataset.dimensions) = Len(cube.dataset.sizes)
        /\ \A k \in 1..Len(cube.dataset.dimensions) :
              cube.dataset.sizes[k] = Len(cube.dataset.dimensions[k].categories)

\* the document lacks one of the fields id, dimension, value
LacksRequiredField(doc) == \E f \in {"id", "dimension", "value"} : f \notin doc.fields

\* what C17 says of every such document whatever the error_message is: the
\* decoding fails with the malformed-cube error, the fetch fails and no
\* record is stored
MalformedCubeFailsFetch(c) ==
    /\ cube.dataset.error = Some(MalformedCube)
    /\ MalformedCube.kind = "StatFinError"
    /\ db_rows[c] = 0
    /\ call[c].pending_rows = 0
    /\ ~call[c].result.success

\* C17 as stated: parse_jsonstat fails with the malformed-cube error
\* whenever id, dimension or value is absent, and a fetch_dataset whose
\* response is such a document returns success = false with that error and
\* stores no record.
C17_MalformedCubeSurfaced ==
    (Received /\ LacksRequiredField(cube.doc)) =>
        /\ MalformedCubeFailsFetch(1)
        /\ HasReturned(1) =>
              call[1].result.error_message = Prefixed("API error: ", Str(MalformedCube))

\* C17, amended: the same, except that the returned error_message is the
\* malformed-cube error only when the rollback and the close of the session
\* did not raise; when one of them raised, it is the text of that exception.
C17_MalformedCubeFails ==
    (Received /\ LacksRequiredField(cube.doc)) =>
        /\ MalformedCubeFailsFetch(1)
        /\ HasReturned(1) =>
              call[1].result.error_message =
                  IF call[1].exc = NoException
                  THEN Prefixed("API error: ", Str(MalformedCube))
                  ELSE Str(call[1].exc[1])

\* the fetch of a document without "value" has returned the malformed-cube
\* error after its rollback
C17_Witness ==
    /\ Received
    /\ cube.doc.fields = AllFields \ {"value"}
    /\ HasReturned(1)
    /\ call[1].rolled_back
    /\ call[1].exc = NoException
    /\ ~call[1].result.success
    /\ call[1].result.error_message = Prefixed("API error: ", Str(MalformedCube))
    /\ db_rows[1] = 0

(***************************************************************************)
(* Time codes and records (SpecNorm)                                       *)
(***************************************************************************)
TimeParsed == norm.pc = "parsed_time"
Normalized == norm.pc = "normalized"
\* The code has a run of four digits; the start of its first one
HasYearRun(code) == \E p \in 1..(Len(code) - 3) : AllDigits(code, p, p + 3)
FirstYearRun(code) ==
    CHOOSE p \in 1..(Len(code) - 3) :
        /\ AllDigits(code, p, p + 3)
        /\ \A q \in 1..(p - 1) : ~AllDigits(code, q, q + 3)
\* The number that the characters from..to of the code spell
Spelled(code, from, to) == IntOf(SubSeq(code, from, to))
\* The code without the newline that may end it
Stripped(code) ==
    IF code # <<>> /\ code[Len(code)] = "\n" THEN SubSeq(code, 1, Len(code) - 1)
    ELSE code

\* C18: parse_time_value tries the formats YYYY, YYYYQ[1-4], YYYYM<1-2
\* digits>, YYYY-MM and then the first run of four digits anywhere, in this
\* order, and the first that matches decides the result: "2023" gives
\* (2023, None, None), "2023Q2" (2023, 2, None), "2023M06" and "2023-06"
\* (2023, None, 6), "abc2021xyz" (2021, None, None), and a code without a run
\* of four digits ("abc") raises the error.
C18_FirstFormatDecides ==
    TimeParsed =>
        LET code == norm.code
            time == norm.time
            Is(y, q, m) == time = [error |-> FALSE, year |-> Some(y),
                                   quarter |-> q, month |-> m]
        IN  /\ CASE YEAR_PATTERN(code) -> Is(Spelled(code, 1, 4), None, None)
                  [] YEAR_QUARTER_PATTERN(code) ->
                        Is(Spelled(code, 1, 4), Some(Spelled(code, 6, 6)), None)
                  [] YEAR_MONTH_PATTERN(code) ->
                        Is(Spelled(code, 1, 4), None,
                           Some(Spelled(Stripped(code), 6, Len(Stripped(code)))))
                  [] MONTH_YEAR_PATTERN(code) ->
                        Is(Spelled(code, 1, 4), None, Some(Spelled(code, 6, 7)))
                  [] OTHER ->
                        IF HasYearRun(code)
                        THEN Is(Spelled(code, FirstYearRun(code), FirstYearRun(code) + 3),
                                None, None)
                        ELSE time.error
            /\ code = <<"2", "0", "2", "3">> => Is(2023, None, None)
            /\ code = <<"2", "0", "2", "3", "Q", "2">> => Is(2023, Some(2), None)
            /\ code = <<"2", "0", "2", "3", "M", "0", "6">> => Is(2023, None, Some(6))
            /\ code = <<"2", "0", "2", "3", "-", "0", "6">> => Is(2023, None, Some(6))
            /\ code = <<"a", "b", "c", "2", "0", "2", "1", "x", "y", "z">> =>
                    Is(2021, None, None)
            /\ code = <<"a", "b", "c">> => time.error
            /\ time.error <=> ~HasYearRun(code)
\* a code that only the last format matches, and the year it gave
C18_Witness ==
    /\ TimeParsed
    /\ norm.code = <<"a", "b", "c", "2", "0", "2", "1", "x", "y", "z">>
    /\ norm.time = TimeValue(2021, None, None)

\* The time code of a cell: its coordinate in the time dimension, or, when
\* it has none, its coordinate named "Vuosi" or "Year"
CellTimeCode(dims, coordinates) ==
    LET time_dimension == TimeDimensionOf(dims)
    IN  IF time_dimension # None /\ time_dimension[1] \in DOMAIN coordinates
        THEN Some(coordinates[time_dimension[1]])
        ELSE IF "Vuosi" \in DOMAIN coordinates THEN Some(coordinates["Vuosi"])
        ELSE IF "Year" \in DOMAIN coordinates THEN Some(coordinates["Year"])
        ELSE None
\* The year of the cell can be resolved
YearResolvable(dims, coordinates) ==
    /\ CellTimeCode(dims, coordinates) # None
    /\ HasYearRun(CellTimeCode(dims, coordinates)[1])

\* C19: normalize_records maps each cell to at most one record, in cell
\* order: a cell whose year cannot be resolved (a time code without a run of
\* four digits, or no time coordinate at all) is dropped, every other cell
\* yields its record, every record has a year, and a dropped cell never ends
\* the batch.
C19_DropsOnlyUnresolvableCells ==
    Normalized =>
        LET points == norm.data_points
            records == norm.records
            kept == {k \in 1..Len(points) :
                        YearResolvable(norm.dimensions, points[k].coordinates)}
        IN  /\ Len(records) = Cardinality(kept)
            /\ \A r \in 1..Len(records) :
                    /\ records[r].year # None
                    /\ records[r].value # None
                    /\ records[r].value[1] \in kept
                    /\ records[r].year =
                         LET code == CellTimeCode(norm.dimensions,
                                        points[records[r].value[1]].coordinates)[1]
                         IN  Some(Spelled(code, FirstYearRun(code), FirstYearRun(code) + 3))
            /\ \A r, t \in 1..Len(records) :
                    r < t => records[r].value[1] < records[t].value[1]
\* a cell without time coordinate is dropped and the cell after it is kept
C19_Witness ==
    /\ Normalized
    /\ Len(norm.data_points) = 2
    /\ ~YearResolvable(norm.dimensions, norm.data_points[1].coordinates)
    /\ CellTimeCode(norm.dimensions, norm.data_points[1].coordinates) = None
    /\ YearResolvable(norm.dimensions, norm.data_points[2].coordinates)
    /\ Len(norm.records) = 1
    /\ norm.records[1].value = Some(2)

\* C20: every record the normalizer produces has a quarter that is null or
\* in 1..4 and a month that is null or in 1..12: codes such as "2023M00",
\* "2023M13" or "2023-13" never yield a record with a month out of range.
C20_QuarterAndMonthInRange ==
    Normalized =>
        \A r \in 1..Len(norm.records) :
            /\ norm.records[r].quarter \in {None} \cup {Some(q) : q \in 1..4}
            /\ norm.records[r].month \in {None} \cup {Some(m) : m \in 1..12}

(***************************************************************************)
(* The roles of the dimensions (SpecNorm)                                  *)
(***************************************************************************)
Identified == norm.pc = "identified"
RoleNames == {"time", "region", "industry", "value"}
\* The vocabularies that a dimension matches
VocabulariesOf ==
    [dim \in RoleDimensions |->
        {r \in RoleNames :
            DimensionMatches(CASE r = "time" -> TIME_DIMENSION_NAMES
                               [] r = "region" -> REGION_DIMENSION_NAMES
                               [] r = "industry" -> INDUSTRY_DIMENSION_NAMES
                               [] r = "value" -> VALUE_DIMENSION_NAMES, dim)}]
MatchedVocabularies(dim) == VocabulariesOf[dim]
\* The first of the given vocabularies in the order time, region, industry,
\* value
Precedence == <<"time", "region", "industry", "value">>
FirstInPrecedence(matched) ==
    Precedence[CHOOSE k \in 1..4 :
        Precedence[k] \in matched /\ \A j \in 1..(k - 1) : Precedence[j] \notin matched]
\* The dimensions of the list that were given the role
GivenRole(dims, r) ==
    {k \in 1..Len(dims) :
        MatchedVocabularies(dims[k]) # {}
        /\ FirstInPrecedence(MatchedVocabularies(dims[k])) = r}

\* C21: identify_dimensions gives each dimension at most one role: the role
\* of a dimension whose id or label contains names of several vocabularies
\* is the first of them in the order time, region, industry, value; a
\* dimension that matches no vocabulary gets no role and changes no role
\* assignment. (Each role keeps the last dimension that was given it.)
C21_FirstVocabularyDecidesRole ==
    Identified =>
        LET dims == norm.dimensions
            roles == norm.roles
        IN  /\ \A r \in RoleNames :
                    IF GivenRole(dims, r) = {} THEN roles[r] = None
                    ELSE roles[r] =
                            Some(dims[CHOOSE k \in GivenRole(dims, r) :
                                        \A j \in GivenRole(dims, r) : j <= k].id)
            /\ \A k \in 1..Len(dims) :
                    /\ Cardinality({r \in RoleNames : roles[r] = Some(dims[k].id)}) <= 1
                    /\ MatchedVocabularies(dims[k]) = {} =>
                            \A r \in RoleNames : roles[r] # Some(dims[k].id)
            /\ roles = IdentifyDimensions(
                            SelectSeq(dims, LAMBDA d : MatchedVocabularies(d) # {}))
\* a dimension whose id names a region and a time is the time dimension,
\* and the unclassified dimension after it has no role
C21_Witness ==
    /\ Identified
    /\ Len(norm.dimensions) = 2
    /\ MatchedVocabularies(norm.dimensions[1]) = {"time", "region"}
    /\ MatchedVocabularies(norm.dimensions[2]) = {}
    /\ norm.roles.time = Some(norm.dimensions[1].id)
    /\ norm.roles.region = None

(***************************************************************************)
(* Region codes (SpecNorm)                                                 *)
(***************************************************************************)
RegionNormalized == norm.pc = "region"
\* The code is the prefix "MK" followed by digits
IsPrefixedNumber(code) ==
    /\ Len(code) > 2
    /\ SubSeq(code, 1, 2) = <<"M", "K">>
    /\ AllDigits(code, 3, Len(code))

\* C22: normalize_region_code returns "SSS" for any case variant of a
\* whole-country alias ("SSS", "KOKO MAA", "WHOLE COUNTRY"); otherwise it
\* strips the leading prefix "MK" only if digits follow it ("MK01" gives
\* "01"); every other code is passed through unchanged.
C22_RegionCodeNormalized ==
    RegionNormalized =>
        norm.region_code =
            IF Upper(norm.code) \in WholeCountryCodes THEN <<"S", "S", "S">>
            ELSE IF IsPrefixedNumber(norm.code) THEN SubSeq(norm.code, 3, Len(norm.code))
            ELSE norm.code

(***************************************************************************)
(* The rows of a batch (SpecNorm)                                          *)
(***************************************************************************)
Stored == norm.pc = "stored"
\* The record has a code and the reference table does not hold it
UnknownReference(code, valid) == code # None /\ code[1] \notin valid
\* The number of unknown reference codes in the batch
RECURSIVE UnknownReferences(_, _, _, _)
UnknownReferences(records, k, valid_regions, valid_industries) ==
    IF k > Len(records) THEN 0
    ELSE (IF UnknownReference(records[k].region_code, valid_regions) THEN 1 ELSE 0)
         + (IF UnknownReference(records[k].industry_code, valid_industries) THEN 1 ELSE 0)
         + UnknownReferences(records, k + 1, valid_regions, valid_industries)

\* C23: _store_records never rejects a record because of an unknown
\* reference code: for a batch of n records it adds exactly n rows and
\* reports inserted = n; the region (industry) code of a row is the code of
\* the record when the valid-code set read at the start of the batch holds
\* it, and is null with one warning appended otherwise; all other fields of
\* the record are written unchanged.
C23_UnknownCodesNulledWithWarning ==
    Stored =>
        LET records == norm.records
            rows == norm.stored.rows
        IN  /\ Len(rows) = Len(records)
            /\ norm.stored.inserted = Len(records)
            /\ \A k \in 1..Len(records) :
                    /\ rows[k].region_code =
                            IF UnknownReference(records[k].region_code, norm.valid_regions)
                            THEN None ELSE records[k].region_code
                    /\ rows[k].industry_code =
                            IF UnknownReference(records[k].industry_code,
                                                norm.valid_industries)
                            THEN None ELSE records[k].industry_code
                    /\ rows[k].year = records[k].year
                    /\ rows[k].quarter = records[k].quarter
                    /\ rows[k].month = records[k].month
                    /\ rows[k].value = records[k].value
            /\ Len(norm.stored.warnings) =
                    UnknownReferences(records, 1, norm.valid_regions, norm.valid_industries)

(***************************************************************************)
(* The population cube from the response to the result (SpecCube)          *)
(***************************************************************************)
SampleFetched == cube.pc = "sample"
\* the call has returned a result with success = True
ReturnedSuccess(c) == HasReturned(c) /\ call[c].result.success

\* C24: the 3x2x1 cube (Alue SSS/MK01/MK02 x Vuosi 2022/2023 x Tiedot
\* vaesto) with 6 values is decoded to exactly 6 data points and normalized
\* to 6 records, each with year 2022 or 2023 and a region code, and a
\* successful fetch of it reports records_fetched = 6; in general
\* records_fetched is the number of cells of the decoded cube.
C24_RecordsFetchedIsCellCount ==
    /\ SampleFetched =>
            /\ cube.data_points.error = None
            /\ Len(cube.data_points.points) = 6
            /\ Len(cube.records) = 6
            /\ \A r \in 1..6 :
                    /\ cube.records[r].year \in {Some(2022), Some(2023)}
                    /\ cube.records[r].region_code # None
            /\ ReturnedSuccess(1) => call[1].result.records_fetched = 6
    /\ ((SampleFetched \/ Parsed) /\ ReturnedSuccess(1)) =>
            /\ call[1].result.records_fetched = Len(cube.dataset.values)
            /\ call[1].result.records_fetched = Len(cube.data_points.points)
            /\ (SampleFetched \/ ValidDocument(cube.doc)) =>
                    call[1].result.records_fetched = Product(cube.doc.dimension)
\* the fetch of the sample cube returned success with the six records, the
\* fourth being the one of region 01 in 2023
C24_Witness ==
    /\ SampleFetched
    /\ ReturnedSuccess(1)
    /\ call[1].result.records_fetched = 6
    /\ call[1].result.records_inserted = 6
    /\ cube.records[4].year = Some(2023)
    /\ cube.records[4].region_code = Some(<<"0", "1">>)
    /\ cube.records[4].value = Some(1751717)
    /\ cube.records[1].region_code = Some(<<"S", "S", "S">>)

(***************************************************************************)
(* The retry-after hint of a rate limit (Spec)                             *)
(***************************************************************************)
\* The text has the number in it: a message of the model is made of a
\* prefix, the message of the exception, its status code, and the number
\* of attempts when the message of the exception has one
MentionsNumber(message, n) ==
    /\ message # NullMessage
    /\ \/ message[1].status_code = Some(n)
       \/ message[1].attempts = Some(n)

\* C25: when fetch_dataset fails because the client raised the rate limit
\* error after its retries, the failure given to the caller
\* (FetchResult.error_message) and to the status tracking
\* (last_error_message) keeps the retry-after hint of the error.
C25_RetryAfterHintPreserved ==
    [][\A c \in FetchCalls : \A e \in FetchErrors :
        (e.kind = "StatFinRateLimitError" /\ FetchFails(c, e)) =>
            /\ MentionsNumber(call'[c].result.error_message, e.retry_after[1])
            /\ HasConfig(c) =>
                    MentionsNumber(call'[c].fetch_config[1].last_error_message,
                                   e.retry_after[1])]_vars

(***************************************************************************)
(* Waiting calls (SpecSlotsFair)                                           *)
(***************************************************************************)
Waiting(c) == pc[c] = "waiting"
Launched(c) == pc[c] # "idle"
AllReturned == \A c \in Calls : HasReturned(c)

\* C26: no fetch_dataset call is evicted, only delayed: when every
\* transport and persistence call terminates, every call that waits for a
\* slot eventually gets one and returns a FetchResult, and the slot is given
\* back on every exit path, so that no slot is held once all calls have
\* returned.
C26_WaitingCallsAreServed ==
    /\ \A c \in Calls : Waiting(c) ~> Holding(c)
    /\ \A c \in Calls : Launched(c) ~> HasReturned(c)
    /\ [](AllReturned => sem = max_concurrent)
\* a call waits while every slot is held, after another call has returned
\* and given its slot back
C26_Witness ==
    /\ \E c \in Calls : Waiting(c)
    /\ \E c \in Calls : HasReturned(c)
    /\ \E c \in Calls : Holding(c)
    /\ sem = 0

(***************************************************************************)
(* The delays of one transport operation                                   *)
(***************************************************************************)
\* the backoff after k retried failures: INITIAL_RETRY_DELAY doubled k
\* times, capped at MAX_RETRY_DELAY
BackoffAfter(k) == Min(INITIAL_RETRY_DELAY * Pow2(k), MAX_RETRY_DELAY)
\* the value of the Retry-After header of a 429 response, if it has one
HeaderSeconds(resp) ==
    IF resp.header = NoHeader THEN None
    ELSE LET d == resp.header[1] IN
         Some(IF Len(d) = 1 THEN d[1] ELSE 10 * d[1] + d[2])
\* the delay due after the failed attempt with index k
DelayDue(resp, k) ==
    IF resp.kind = "http" /\ resp.status = 429 /\ HeaderSeconds(resp) # None
    THEN HeaderSeconds(resp)[1]
    ELSE BackoffAfter(k)

\* C27: the delay slept after the failed attempt with index k is
\* min(1 * 2^k, 30) for a 5xx, a timeout and a connection error, and for a
\* 429 the value of its Retry-After header, or the same backoff when it has
\* none; the backoff has advanced once per retried failure of any kind; and
\* no delay follows the final attempt (there is one sleep per attempt that
\* was followed by another, at most max_retries in all).
C27_DelaysFollowBackoff ==
    /\ \A k \in 1..Len(sleeps) : sleeps[k] = DelayDue(responses[k], k - 1)
    /\ retry_delay = BackoffAfter(attempt)
    /\ Len(sleeps) <= max_retries
    /\ req_pc = "sleep" => Len(sleeps) = Len(responses) /\ attempt = Len(sleeps) - 1
    /\ req_pc = "request" => Len(sleeps) = Len(responses) /\ attempt = Len(sleeps)
    /\ req_pc = "done" => Len(sleeps) = Len(responses) - 1 /\ attempt = Len(sleeps)

\* seven failed attempts of all kinds: the 429 with "Retry-After: 5" slept
\* 5, the one without slept the backoff 4, the sixth sleep is capped at 30
\* and nothing was slept after the seventh attempt
C27_Witness ==
    /\ req_pc = "done"
    /\ Len(responses) = 7
    /\ responses[1].kind = "timeout"
    /\ responses[2].kind = "http" /\ responses[2].status = 429
    /\ responses[2].header = Some(<<5>>)
    /\ responses[3].kind = "http" /\ responses[3].status = 429
    /\ responses[3].header = NoHeader
    /\ responses[4].kind = "request_error"
    /\ responses[5].kind = "http" /\ responses[5].status = 503
    /\ responses[6].kind = "http" /\ responses[6].status = 503
    /\ responses[7].kind = "http" /\ responses[7].status = 503
    /\ sleeps = <<1, 5, 4, 8, 16, 30>>

(***************************************************************************)
(* The pace of a fetch_all_active run (checked under SpecAll)              *)
(***************************************************************************)
\* the fetch_dataset calls that were started and have not returned
Running == {c \in Calls : pc[c] \notin {"idle", "done", "collected"}}
\* a fetch of the run after its first one was started and not yet collected
LaterFetchStarted == run.pc = "await" /\ Len(run.results) >= 1

\* C28: in a run that selected more than one source at most one fetch is
\* running at any time, none is running while the run sleeps or is about to
\* start the next one, and when a fetch after the first is started at least
\* MIN_FETCH_DELAY = 1 second was slept since the fetch before it returned.
C28_FetchesSpacedByMinDelay ==
    Len(run.configs) > 1 =>
        /\ Cardinality(Running) <= 1
        /\ run.pc \in {"sleep", "next"} => Running = {}
        /\ MIN_FETCH_DELAY = 1
        /\ (run.pc = "next" /\ Len(run.results) >= 1) =>
                run.waited >= MIN_FETCH_DELAY
        /\ LaterFetchStarted => run.waited >= MIN_FETCH_DELAY

\* the second fetch of a run over three sources is in flight, one second
\* after the first one returned
C28_Witness ==
    /\ Len(run.configs) = 3
    /\ LaterFetchStarted
    /\ Len(run.results) = 1
    /\ pc[2] = "fetch"
    /\ pc[1] = "collected"
    /\ run.waited = MIN_FETCH_DELAY

(***************************************************************************)
(* The success flag of a returned FetchResult (checked under Spec)         *)
(***************************************************************************)
\* C29: a FetchResult returned with success = true has no error_message and
\* the commit of its batch completed; so a call whose commit or session
\* close raised after _do_fetch succeeded does not return success = true.
C29_SuccessMeansCommitted ==
    \A c \in FetchCalls :
        (HasReturned(c) /\ call[c].result.success) =>
            /\ call[c].result.error_message = None
            /\ call[c].committed
            /\ call[c].exc = NoException

(***************************************************************************)
(* The fetch status of the sources across calls (checked under Spec)       *)
(***************************************************************************)
\* the calls on source d that returned success = true
SuccessfulCalls(d) ==
    {c \in FetchCalls :
        HasReturned(c) /\ call[c].dataset_id = d /\ call[c].result.success}
\* no call on source d is under way
Quiet(d) ==
    \A c \in FetchCalls : call[c].dataset_id = d => HasReturned(c)
\* call c takes a step
Steps(c) == pc'[c] # pc[c]

\* when the calls on a source have returned, its stored fetch_count is the
\* initial one plus the number of calls that returned success = true
CountMatchesSuccesses ==
    \A d \in DOMAIN db_config :
        Quiet(d) =>
            db_config[d].fetch_count =
                InitialConfigs[d].fetch_count + Cardinality(SuccessfulCalls(d))
\* no step of a call whose result is not successful changes the stored
\* fetch_count or last_fetch_at of its source
FailedFetchKeepsCount ==
    \A c \in FetchCalls :
        (Steps(c) /\ ~call[c].result.success /\ ~call'[c].result.success
                  /\ call[c].dataset_id \in DOMAIN db_config) =>
            /\ db_config'[call[c].dataset_id].fetch_count =
                    db_config[call[c].dataset_id].fetch_count
            /\ db_config'[call[c].dataset_id].last_fetch_at =
                    db_config[call[c].dataset_id].last_fetch_at
\* a step of a call on one source changes no status column of another one
OtherSourcesUntouched ==
    \A c \in FetchCalls : \A d \in DOMAIN db_config :
        (Steps(c) /\ d # call'[c].dataset_id) => db_config'[d] = db_config[d]

\* C30: after the fetch_dataset calls on a source, its stored fetch_count is
\* the initial value plus the number of calls that returned success = true;
\* a failed fetch leaves fetch_count and last_fetch_at as they were; and a
\* fetch of one source changes no status column of any other source.
C30_FetchCountCountsSuccesses ==
    /\ []CountMatchesSuccesses
    /\ [][FailedFetchKeepsCount]_vars
    /\ [][OtherSourcesUntouched]_vars
====
